---- MODULE Spec2Model ----
(***************************************************************************)
(* Model of the manim service: the endpoints of app.py, the generators     *)
(* and the scenes they emit.                                               *)
(*                                                                         *)
(* Each generator (packages/manim-service/generators/*.py) emits the text  *)
(* of a manim Scene class from an f-string template.  The state machine    *)
(* below is an endpoint receiving a request, generate_script() evaluating  *)
(* the template, _execute_manim_script() running manim on the script, and  *)
(* the run of the emitted construct() method: one action per statement     *)
(* block or loop iteration of the emitted routines, with the request       *)
(* parameters that generate_script() interpolates into the text as the     *)
(* inputs.                                                                 *)
(*                                                                         *)
(* Double braces in the generator source are single braces in the emitted  *)
(* text: "{{x}}" is emitted as "{x}" and evaluated when the scene runs,    *)
(* while "{x}" is replaced by the value of x when the script is generated. *)
(*                                                                         *)
(* Routines of the manim library itself (Text, Arrow, self.play, np.cos,   *)
(* math.log2, ...) are taken to be available and to succeed.               *)
(*                                                                         *)
(* Spec is the service.  GeneratorSpec is generate_script() called by      *)
(* itself with any id string.  TemplateSpec runs the data structure scene  *)
(* as its template states it, from construct() on: the service never gets  *)
(* there, because evaluating that template raises (see GenerateScript).    *)
(* ComplexitySpec is get_complexity_data() called on a generator.          *)
(* SortSpec runs animate_bubble_sort of the algorithm scene on a list.     *)
(* ConcurrentSpec is two generation requests served at once, step by step  *)
(* of _execute_manim_script, with the status endpoint asked in between.    *)
(***************************************************************************)
EXTENDS Integers, Sequences, FiniteSets, TLC

VARIABLES
    family,            \* which endpoint and generator the request goes to
    params,            \* the parameter map of the request (the JSON body)
    animation_id,      \* the id of the request, a string as its characters
    class_declared,    \* the name of the Scene class the script declares
    class_rendered,    \* the class name passed to the manim command
    pc,                \* position of the request, then of the running construct()
    i,                 \* index of the loop the scene is in
    mobjects,          \* named objects the scene has created
    domain,            \* DNS: dns_data['domain']
    show_cache,        \* DNS: dns_data['show_cache']
    show_timing,       \* DNS: dns_data['show_timing']
    protocol_version,  \* HTTP: flow_data['protocol_version']
    steps,             \* DNS: the list `steps` of animate_dns_resolution
    step_texts,        \* DNS/HTTP: the step indicators played, in order
    structure_type,    \* data structure: structure_data['type']
    data,              \* data structure: structure_data['data']
    operations,        \* data structure: structure_data['operations']
    current_elements,  \* stack: `elements`, then `current_elements`
    scene_elements,    \* stack: element groups created and not faded out
    nodes,             \* binary tree: the dict `nodes`
    edges,             \* binary tree: the list `edges`
    boxes,             \* array: the list `boxes`, as the values shown
    op_steps,          \* array: the operations animated, in order
    flow_type,         \* process flow: process_data['flow_type']
    steps_data,        \* process flow / HTTP: the input list of items
    step_objects,      \* process flow: the list `step_objects`
    arrows,            \* process flow: the list `arrows`
    summary,           \* process flow: total_steps and step_counts of the summary
    played,            \* process flow: what self.play has created, in order
    files,             \* the names of the files in OUTPUT_DIR
    response,          \* the response of the endpoint to the request
    calls,             \* concurrent requests: the state of each call
    status_report,     \* the last response of the status endpoint
    complexities,      \* get_complexity_data: the dict `complexities` of the last call
    complexity_data,   \* get_complexity_data: the record the last call returned
    bars,              \* bubble sort: the list `bars`
    values,            \* bubble sort: the list `values`
    j                  \* bubble sort: index of the inner loop

vars == <<family, params, animation_id, class_declared, class_rendered, pc,
          i, mobjects, domain, show_cache, show_timing, protocol_version,
          steps, step_texts, structure_type, data, operations,
          current_elements, scene_elements, nodes, edges, boxes, op_steps,
          flow_type, steps_data, step_objects, arrows, summary, played,
          files, response, calls, status_report, complexities, complexity_data,
          bars, values, j>>

\* The request as received.
inputVars == <<family, params, animation_id>>

\* The locals generate_script reads from the request.
localVars == <<domain, show_cache, show_timing, protocol_version,
               structure_type, data, operations, flow_type, steps_data>>

requestVars == <<inputVars, localVars>>

scriptVars == <<class_declared, class_rendered>>
arrayVars == <<boxes, op_steps>>

stackVars == <<current_elements, scene_elements>>
treeVars  == <<nodes, edges>>
flowVars  == <<step_objects, arrows, summary, played>>

\* The state of the running scene.
sceneVars == <<i, mobjects, steps, step_texts, stackVars, treeVars, flowVars, arrayVars>>

\* OUTPUT_DIR and the answer to the request.
serviceVars == <<files, response>>

\* The state of the concurrent calls and of the status endpoint, of
\* get_complexity_data and of animate_bubble_sort, which the run of one
\* request leaves alone.
concurrentVars == <<calls, status_report>>
complexityVars == <<complexities, complexity_data>>
sortVars == <<bars, values, j>>
otherVars == <<concurrentVars, complexityVars, sortVars>>

-----------------------------------------------------------------------------
(* Bounds of the inputs.                                                   *)

MaxData == 2        \* stack: longest initial contents
MaxOps == 3         \* stack: longest operation list
MaxTreeData == 8    \* binary tree: longest data list (the cap is 7)
MaxStages == 5      \* circular flow: most stages
MaxHttpSteps == 3   \* HTTP flow: most input items
MaxArrayOps == 2    \* array: longest operation list
MaxLinearSteps == 3 \* linear flow: most stages
MaxBranchSteps == 3 \* branching flow: most items
MaxIdLen == 2       \* longest request id, in characters
MaxSortLen == 3     \* bubble sort: longest list given
MaxDecisionSteps == 4 \* branching flow by itself: most items

Values == {10, 20}
Domains == {<<"example", "com">>, <<"localhost">>}

RECURSIVE SeqsUpTo(_, _)
SeqsUpTo(S, n) ==
    IF n = 0 THEN {<<>>}
    ELSE LET shorter == SeqsUpTo(S, n - 1)
         IN shorter \cup {Append(s, x) : s \in {t \in shorter : Len(t) = n - 1}, x \in S}

Min(a, b) == IF a < b THEN a ELSE b

SeqToSet(s) == {s[k] : k \in 1..Len(s)}

-----------------------------------------------------------------------------
(* Python values.                                                          *)

\* bool(x) of a Python set: a set is true exactly when it is not empty.
SetTruth(S) == S # {}

\* bool(x) of a Python dict: a dict is true exactly when it has a key.
DictTruth(d) == DOMAIN d # {}

\* dict.get(key, default)
Get(d, key, default) == IF key \in DOMAIN d THEN d[key] ELSE default

\* str.replace(old, new) for a one-character old, on a string given as the
\* sequence of its characters.
Replace(str, old, new) ==
    [k \in 1..Len(str) |-> IF str[k] = old THEN new ELSE str[k]]

\* ".".join(labels)
RECURSIVE Join(_)
Join(labels) ==
    IF labels = <<>> THEN ""
    ELSE IF Len(labels) = 1 THEN labels[1]
    ELSE labels[1] \o "." \o Join(Tail(labels))

\* format(value, spec) of a str value succeeds for the empty spec; of the
\* specs the templates hold, no other one is a format spec of str
\* ([[fill]align][width][.precision][s]): format raises ValueError.
ValidStrFormatSpec(spec) == spec = ""

-----------------------------------------------------------------------------
(* The endpoints of app.py and generate_script.                            *)

\* The four endpoints, named by the class_name each passes on.
Families == {"HTTPFlow", "DNSResolution", "DataStructure", "ProcessFlow"}

\* jsonify({'error': message}), code
Failure(code, message) == [code |-> code, error |-> message]

\* jsonify(result) of the dict _execute_manim_script returns
Success(id, video_file) ==
    [code |-> 200, id |-> id, file_path |-> video_file, status |-> "completed"]

\* The endpoints' "if not data: return jsonify({'error': ...}), 400",
\* then the call of the generator.
HandleRequest ==
    /\ pc = "request"
    /\ pc' = IF ~DictTruth(params) THEN "bad_request" ELSE "generate_script"
    /\ response' = IF ~DictTruth(params) THEN Failure(400, "No data provided") ELSE response
    /\ UNCHANGED <<requestVars, i, mobjects, steps, step_texts, stackVars, treeVars,
                   flowVars, scriptVars, files, otherVars, arrayVars>>

\* The name each template gives its class before the underscore.
ScenePrefix(fam) ==
    CASE fam = "HTTPFlow"      -> "HTTPFlow"
      [] fam = "DNSResolution" -> "DNSResolution"
      [] fam = "DataStructure" -> "DataStructure"
      [] fam = "ProcessFlow"   -> "ProcessFlow"

\* The identifier left as it was passed.
SceneIdentifierRaw(id) == id

\* animation_id.replace("-", "_") of the templates' class line
SceneIdentifier(id) == Replace(id, "-", "_")

\* "class HTTPFlow_{animation_id.replace("-", "_")}(Scene):" and the like
SceneClassName(fam, id) == <<ScenePrefix(fam), "_">> \o SceneIdentifier(id)

\* f"{class_name}_{animation_id.replace('-', '_')}" of the manim command
RenderClassName(class_name, id) == <<class_name, "_">> \o Replace(id, "-", "_")

\* The values of the locals before generate_script assigns them.
Unset ==
    [domain |-> <<>>, show_cache |-> FALSE, show_timing |-> FALSE,
     protocol_version |-> "", structure_type |-> "", data |-> <<>>,
     operations |-> <<>>, flow_type |-> "", steps_data |-> <<>>]

\* The first lines of each generate_script: the locals, read from the
\* request with their defaults.  A domain is the sequence of its labels.
Locals(fam, p) ==
    CASE fam = "DNSResolution" ->
           [Unset EXCEPT !.domain = Get(p, "domain", <<"example", "com">>),
                         !.show_cache = Get(p, "show_cache", TRUE),
                         !.show_timing = Get(p, "show_timing", TRUE)]
      [] fam = "HTTPFlow" ->
           [Unset EXCEPT !.steps_data = Get(p, "steps", <<>>),
                         !.protocol_version = Get(p, "protocol_version", "HTTP/1.1")]
      [] fam = "DataStructure" ->
           [Unset EXCEPT !.structure_type = Get(p, "type", "array"),
                         !.data = Get(p, "data", <<1, 2, 3, 4, 5>>),
                         !.operations = Get(p, "operations", <<>>)]
      [] fam = "ProcessFlow" ->
           [Unset EXCEPT !.steps_data = Get(p, "steps", <<>>),
                         !.flow_type = Get(p, "flow_type", "linear")]

\* The format specs of the template's replacement fields.  The fields that
\* interpolate the request ({domain}, {json.dumps(steps)}, ...) have none.
\* In the data structure template the dict displays of get_complexity_data
\* stand in single braces: each is a replacement field whose expression is
\* the string before the first colon and whose spec is the rest.
TemplateFormatSpecs(fam) ==
    IF fam = "DataStructure"
    THEN {"", " \"O(1)\", \"search\": \"O(n)\", \"insert\": \"O(n)\", \"delete\": \"O(n)\", \"space\": \"O(n)\""}
    ELSE {""}

\* The exception taken for a returned script: the next line is run.
RaisedNextLine == "script"

\* An exception raised in generate_script leaves generate_*_diagram at
\* once: the call of _execute_manim_script on the next line is not made.
Raised == "error"

\* generate_script: the locals, then the f-string that is the script.  The
\* script exists when every field formats, else the call raises ValueError
\* and no script exists.
GenerateScript ==
    /\ pc = "generate_script"
    /\ LET l == Locals(family, params)
       IN /\ domain' = l.domain
          /\ show_cache' = l.show_cache
          /\ show_timing' = l.show_timing
          /\ protocol_version' = l.protocol_version
          /\ structure_type' = l.structure_type
          /\ data' = l.data
          /\ operations' = l.operations
          /\ flow_type' = l.flow_type
          /\ steps_data' = l.steps_data
    /\ IF \A spec \in TemplateFormatSpecs(family) : ValidStrFormatSpec(spec)
       THEN /\ class_declared' = SceneClassName(family, animation_id)
            /\ pc' = "script"
       ELSE /\ class_declared' = class_declared
            /\ pc' = Raised
    /\ UNCHANGED <<inputVars, class_rendered, i, mobjects, steps, step_texts,
                   stackVars, treeVars, flowVars, arrayVars, serviceVars, otherVars>>

\* The endpoint's "except Exception": what generate_script raised is
\* answered with 500.
RespondInternalError ==
    /\ pc = "error"
    /\ class_rendered = <<>>
    /\ response' = Failure(500, "Internal server error")
    /\ pc' = "responded"
    /\ UNCHANGED <<requestVars, sceneVars, scriptVars, files, otherVars>>

\* The names of files, as the sequence of their characters; the name a
\* family gives its class and the extension are one item each.
\* script_file = self.output_dir / f"{animation_id}.py"
ScriptFile(id) == id \o <<".py">>

\* output_file = self.output_dir / f"{animation_id}.mp4"
OutputFile(id) == id \o <<".mp4">>

\* The file manim names after the class it rendered.
VideoFile(class_name, id) == RenderClassName(class_name, id) \o <<".mp4">>

\* fnmatch of a name against a pattern whose "*" stands for any run of
\* characters, whose "?" stands for any one character and whose other
\* characters stand for themselves.
RECURSIVE FnMatch(_, _)
FnMatch(name, pattern) ==
    IF pattern = <<>> THEN name = <<>>
    ELSE IF Head(pattern) = "*"
    THEN \/ FnMatch(name, Tail(pattern))
         \/ name # <<>> /\ FnMatch(Tail(name), pattern)
    ELSE IF Head(pattern) = "?"
    THEN name # <<>> /\ FnMatch(Tail(name), Tail(pattern))
    ELSE /\ name # <<>>
         /\ Head(name) = Head(pattern)
         /\ FnMatch(Tail(name), Tail(pattern))

\* self.output_dir.glob(pattern)
Glob(dir, pattern) == {name \in dir : FnMatch(name, pattern)}

\* The pattern without the id: "*.mp4"
IdPatternAnyVideo(id) == <<"*", ".mp4">>

\* f"*{animation_id}*.mp4"
IdPattern(id) == <<"*">> \o id \o <<"*", ".mp4">>

\* The video files _execute_manim_script finds: those of the first pattern
\* or, when there is none, those of the alternative pattern.
FindVideo(dir, class_name, id) ==
    IF Glob(dir, IdPattern(id)) # {}
    THEN Glob(dir, IdPattern(id))
    ELSE Glob(dir, VideoFile(class_name, id))

\* The script file left where it is.
UnlinkNothing(dir, name) == dir

\* "if script_file.exists(): script_file.unlink()"
Unlink(dir, name) == dir \ {name}

\* The videos a run of manim that exits with 0 may leave in OUTPUT_DIR:
\* none, the file named after the class, or the file named after the id.
Rendered(class_name, id) == {{}, {VideoFile(class_name, id)}, {OutputFile(id)}}

\* _execute_manim_script up to subprocess.run: the script is written to a
\* file and manim is run on it for the class RenderClassName; manim runs the
\* scene when the script declares a class of that name and fails when it
\* does not.
ExecuteManimScript ==
    /\ pc = "script"
    /\ files' = files \cup {ScriptFile(animation_id)}
    /\ class_rendered' = RenderClassName(family, animation_id)
    /\ pc' = IF RenderClassName(family, animation_id) = class_declared
             THEN "construct"
             ELSE "error"
    /\ UNCHANGED <<requestVars, class_declared, sceneVars, response, otherVars>>

\* Manim is running: it was started and the call has not come to its end.
ManimRunning == class_rendered # <<>> /\ pc \notin {"timeout", "failed", "responded"}

\* subprocess.run(..., timeout=120) raises TimeoutExpired: manim is killed
\* where it is.
ManimTimeout ==
    /\ ManimRunning
    /\ pc' = "timeout"
    /\ UNCHANGED <<requestVars, i, mobjects, steps, step_texts, stackVars, treeVars,
                   flowVars, arrayVars, scriptVars, serviceVars, otherVars>>

\* subprocess.run returns with a return code other than 0 for a cause of
\* manim's own, wherever the scene has come to.
ManimFails ==
    /\ ManimRunning
    /\ pc' = "failed"
    /\ UNCHANGED <<requestVars, i, mobjects, steps, step_texts, stackVars, treeVars,
                   flowVars, arrayVars, scriptVars, serviceVars, otherVars>>

\* _execute_manim_script from the return of subprocess.run on: the return
\* code, the search for the video, the result or the ManimServiceError, and
\* the "finally"; then the endpoint's answer.
FinishExecute ==
    /\ pc \in {"done", "error", "failed", "timeout"}
    /\ class_rendered # <<>>
    /\ \E rendered \in Rendered(family, animation_id) :
          LET dir == IF pc = "done" THEN files \cup rendered ELSE files
              video_files == FindVideo(dir, family, animation_id)
          IN /\ \/ /\ pc = "timeout"
                   /\ response' = Failure(500, "Manim execution timed out")
                \/ /\ pc \in {"error", "failed"}
                   /\ response' = Failure(500, "Error executing Manim script: Manim execution failed")
                \/ /\ pc = "done"
                   /\ video_files = {}
                   /\ response' = Failure(500, "Error executing Manim script: Generated video file not found")
                \/ /\ pc = "done"
                   /\ \E video_file \in video_files :
                         response' = Success(animation_id, video_file)
             /\ files' = Unlink(dir, ScriptFile(animation_id))
    /\ pc' = "responded"
    /\ UNCHANGED <<requestVars, sceneVars, scriptVars, otherVars>>

-----------------------------------------------------------------------------
(* DNS resolution scene.                                                   *)

\* domain.split('.')[-1]
LastLabel(labels) == labels[Len(labels)]

\* The list with the TLD exchange ahead of the root exchange.
ProtocolStepsTldFirst ==
    << [from |-> "client", to |-> "tld",    message |-> "Query: " \o Join(domain) \o "?", step_id |-> 1],
       [from |-> "tld",    to |-> "client", message |-> "Try authoritative server",       step_id |-> 2],
       [from |-> "client", to |-> "root",   message |-> "Query: " \o Join(domain) \o "?", step_id |-> 3],
       [from |-> "root",   to |-> "client", message |-> "Try ." \o LastLabel(domain) \o " TLD server", step_id |-> 4],
       [from |-> "client", to |-> "auth",   message |-> "Query: " \o Join(domain) \o "?", step_id |-> 5],
       [from |-> "auth",   to |-> "client", message |-> "Answer: IP address",             step_id |-> 6] >>

\* The list `steps` of animate_dns_resolution: (from, to, message, id),
\* the messages being f-strings over the routine's parameter `domain`.
ProtocolSteps ==
    << [from |-> "client", to |-> "root",   message |-> "Query: " \o Join(domain) \o "?", step_id |-> 1],
       [from |-> "root",   to |-> "client", message |-> "Try ." \o LastLabel(domain) \o " TLD server", step_id |-> 2],
       [from |-> "client", to |-> "tld",    message |-> "Query: " \o Join(domain) \o "?", step_id |-> 3],
       [from |-> "tld",    to |-> "client", message |-> "Try authoritative server",       step_id |-> 4],
       [from |-> "client", to |-> "auth",   message |-> "Query: " \o Join(domain) \o "?", step_id |-> 5],
       [from |-> "auth",   to |-> "client", message |-> "Answer: IP address",             step_id |-> 6] >>

\* The cache step labelled like the first protocol step.
CacheStepLabelledOne ==
    [from |-> "client", to |-> "cache", message |-> "Check cache for " \o Join(domain), step_id |-> 1]

CacheStep ==
    [from |-> "client", to |-> "cache", message |-> "Check cache for " \o Join(domain), step_id |-> 0]

\* The emitted guard is "if {show_cache}:", a set display holding the flag.
CacheGuard(flag) == SetTruth({flag})

\* steps.append(step) in place of steps.insert(0, step)
AppendCacheStep(list, step) == Append(list, step)

\* steps.insert(0, step)
InsertCacheStep(list, step) == <<step>> \o list

timings == <<1, 50, 30, 25, 20, 15, 10>>

\* The table read one place further on.
get_step_timing_next(step_num) == timings[((step_num + 1) % Len(timings)) + 1]

\* timings[step_num % len(timings)]
get_step_timing(step_num) == timings[(step_num % Len(timings)) + 1]

\* get_server_position: the cache falls back to the client when the scene
\* has no cache_group.
get_server_position(server_name) ==
    IF server_name = "cache" /\ "cache_group" \notin mobjects
    THEN "client_group"
    ELSE server_name \o "_group"

\* construct() up to the call of animate_dns_resolution, create_dns_infrastructure
\* included; "if {show_cache}:" there is replaced at generation time.
DnsConstruct ==
    /\ family = "DNSResolution"
    /\ pc = "construct"
    /\ mobjects' = {"title", "client_group", "root_group", "tld_group", "auth_group"}
                   \cup (IF show_cache THEN {"cache_group"} ELSE {})
    /\ pc' = "animate_dns_resolution"
    /\ UNCHANGED <<requestVars, i, steps, step_texts, stackVars, treeVars, flowVars,
                   scriptVars, serviceVars, otherVars, arrayVars>>

\* animate_dns_resolution: the list and the cache step.
DnsBuildSteps ==
    /\ family = "DNSResolution"
    /\ pc = "animate_dns_resolution"
    /\ steps' = IF CacheGuard(show_cache)
                THEN InsertCacheStep(ProtocolSteps, CacheStep)
                ELSE ProtocolSteps
    /\ i' = 0
    /\ pc' = "dns_steps"
    /\ UNCHANGED <<requestVars, mobjects, step_texts, stackVars, treeVars, flowVars,
                   scriptVars, serviceVars, otherVars, arrayVars>>

\* One iteration of "for step_num, (...) in enumerate(steps)".
DnsAnimateStep ==
    /\ family = "DNSResolution"
    /\ pc = "dns_steps"
    /\ i < Len(steps)
    /\ LET step_num == i
           step == steps[step_num + 1]
       IN step_texts' = Append(step_texts,
              [number    |-> step.step_id,
               message   |-> step.message,
               from      |-> step.from,
               to        |-> step.to,
               from_pos  |-> get_server_position(step.from),
               to_pos    |-> get_server_position(step.to),
               timing_ms |-> IF show_timing THEN <<get_step_timing(step_num)>> ELSE <<>>])
    /\ i' = i + 1
    /\ UNCHANGED <<requestVars, pc, mobjects, steps, stackVars, treeVars, flowVars,
                   scriptVars, serviceVars, otherVars, arrayVars>>

\* The loop is over: show_resolution_result and the end of construct().
DnsShowResult ==
    /\ family = "DNSResolution"
    /\ pc = "dns_steps"
    /\ i = Len(steps)
    /\ mobjects' = mobjects \cup {"result_box"}
    /\ pc' = "done"
    /\ UNCHANGED <<requestVars, i, steps, step_texts, stackVars, treeVars, flowVars,
                   scriptVars, serviceVars, otherVars, arrayVars>>

-----------------------------------------------------------------------------
(* Data structure scene: stack.                                            *)

\* element.shift(DOWN * (2.5 - k * 0.7)): the vertical offset, in tenths.
stack_offset(k) == -(25 - k * 7)

\* The pop branch without its emptiness test.
PopAlways(elems) == TRUE

\* "and current_elements" of the pop branch: a list is true when not empty.
PopAllowed(elems) == elems # <<>>

\* The push placed by the number of initial elements, len(elements).
PushOffsetFromInitial(elems) == stack_offset(Len(data))

\* new_element.shift(DOWN * (2.5 - len(current_elements) * 0.7))
PushOffset(elems) == stack_offset(Len(elems))

\* list.pop() removes the last item.
ListPop(elems) == SubSeq(elems, 1, Len(elems) - 1)

\* The kinds construct() tests for, each with a layout of its own.
StructureKinds ==
    {"array", "linked_list", "stack", "queue", "binary_tree", "hash_table", "graph"}

\* The methods the emitted class defines (the "def" lines of the template).
DefinedRoutines ==
    {"construct", "show_complexity_info", "get_complexity_data",
     "create_array_visualization", "create_linked_list_visualization",
     "create_stack_visualization", "create_binary_tree_visualization",
     "perform_array_operations", "highlight_array_element",
     "perform_stack_operations", "create_generic_visualization"}

\* The if/elif chain of construct(): the layout routine of each kind.
LayoutRoutine(kind) ==
    IF kind \in StructureKinds
    THEN "create_" \o kind \o "_visualization"
    ELSE "create_generic_visualization"

\* self.<routine>(...): the call is made when the class defines the method
\* and raises AttributeError when it does not.
Call(routine) == IF routine \in DefinedRoutines THEN routine ELSE "error"

\* construct() of the data structure scene up to the layout it dispatches to.
DataStructureConstruct ==
    /\ family = "DataStructure"
    /\ pc = "construct"
    /\ mobjects' = {"title", "complexity_group"}
    /\ pc' = Call(LayoutRoutine(structure_type))
    /\ UNCHANGED <<requestVars, i, steps, step_texts, stackVars, treeVars, flowVars,
                   scriptVars, serviceVars, otherVars, arrayVars>>

\* create_stack_visualization: the base, before the loop over data.
StackBase ==
    /\ family = "DataStructure"
    /\ pc = "create_stack_visualization"
    /\ mobjects' = mobjects \cup {"stack_base"}
    /\ i' = 0
    /\ pc' = "stack_elements"
    /\ UNCHANGED <<requestVars, steps, step_texts, stackVars, treeVars, flowVars,
                   scriptVars, serviceVars, otherVars, arrayVars>>

\* One iteration of "for i, value in enumerate(data)".
StackCreateElement ==
    /\ family = "DataStructure"
    /\ pc = "stack_elements"
    /\ i < Len(data)
    /\ LET element_group == [id |-> i, value |-> data[i + 1], offset |-> stack_offset(i)]
       IN /\ current_elements' = Append(current_elements, element_group)
          /\ scene_elements' = scene_elements \cup {element_group}
    /\ i' = i + 1
    /\ UNCHANGED <<requestVars, pc, mobjects, steps, step_texts, treeVars, flowVars,
                   scriptVars, serviceVars, otherVars, arrayVars>>

\* After the loop: the TOP pointer, the LIFO text, and the entry of
\* perform_stack_operations (current_elements = elements.copy()).
StackShowTop ==
    /\ family = "DataStructure"
    /\ pc = "stack_elements"
    /\ i = Len(data)
    /\ mobjects' = mobjects \cup {"lifo_text"}
                   \cup (IF current_elements # <<>> THEN {"top_pointer", "top_label"} ELSE {})
    /\ i' = 0
    /\ pc' = "perform_stack_operations"
    /\ UNCHANGED <<requestVars, steps, step_texts, stackVars, treeVars, flowVars,
                   scriptVars, serviceVars, otherVars, arrayVars>>

\* One iteration of "for operation in operations".  Each element created is
\* numbered in creation order: the initial ones 0..len(data)-1, then one
\* number per operation.
StackOperation ==
    /\ family = "DataStructure"
    /\ pc = "perform_stack_operations"
    /\ i < Len(operations)
    /\ LET operation == operations[i + 1]
           op_type == Get(operation, "type", "push")
           value == Get(operation, "value", 0)
       IN IF op_type = "push"
          THEN LET element_group == [id |-> Len(data) + i, value |-> value,
                                     offset |-> PushOffset(current_elements)]
               IN /\ current_elements' = Append(current_elements, element_group)
                  /\ scene_elements' = scene_elements \cup {element_group}
                  /\ pc' = pc
          ELSE IF op_type = "pop" /\ PopAllowed(current_elements)
          THEN IF current_elements = <<>>
               THEN \* IndexError: pop from empty list
                    /\ pc' = "error"
                    /\ UNCHANGED stackVars
               ELSE LET top_element == current_elements[Len(current_elements)]
                    IN /\ current_elements' = ListPop(current_elements)
                       /\ scene_elements' = scene_elements \ {top_element}
                       /\ pc' = pc
          ELSE /\ pc' = pc
               /\ UNCHANGED stackVars
    /\ i' = i + 1
    /\ UNCHANGED <<requestVars, mobjects, steps, step_texts, treeVars, flowVars,
                   scriptVars, serviceVars, otherVars, arrayVars>>

\* The operations are over: the end of construct().
StackFinish ==
    /\ family = "DataStructure"
    /\ pc = "perform_stack_operations"
    /\ i = Len(operations)
    /\ pc' = "done"
    /\ UNCHANGED <<requestVars, i, mobjects, steps, step_texts, stackVars, treeVars, flowVars,
                   scriptVars, serviceVars, otherVars, arrayVars>>

-----------------------------------------------------------------------------
(* Data structure scene: binary tree.                                      *)

NodeLimit == 7

\* int(math.log2(n)) for n >= 1
Log2Floor(n) ==
    LET RECURSIVE lg(_)
        lg(m) == IF m < 2 THEN 0 ELSE 1 + lg(m \div 2)
    IN lg(n)

\* level = int(math.log2(i + 1))
tree_level(k) == Log2Floor(k + 1)

\* i // 2 in place of (i - 1) // 2
parent_index_no_minus(k) == k \div 2

\* parent_index = (i - 1) // 2
parent_index(k) == (k - 1) \div 2

\* range(1, len(data)): the loop without the cap
ChildRangeUncapped(d) == 1 .. (Len(d) - 1)

\* range(1, min(len(data), 7)): the indices of the child nodes
ChildRange(d) == 1 .. (Min(Len(d), NodeLimit) - 1)

\* x_offset = (position_in_level - (2**(level-1) - 0.5)) * (4 / 2**level)
\* and y_offset = -level * 1.5, both in quarters of a unit.
tree_position(k) ==
    LET level == tree_level(k)
        position_in_level == k - (2^level - 1)
    IN [x |-> ((2 * position_in_level - 2^level + 1) * 8) \div 2^level,
        y |-> -level * 6]

\* create_binary_tree_visualization up to the loop: nothing for empty data,
\* else the root node.
TreeRoot ==
    /\ family = "DataStructure"
    /\ pc = "create_binary_tree_visualization"
    /\ IF data = <<>>
       THEN /\ pc' = "done"
            /\ UNCHANGED <<i, treeVars>>
       ELSE /\ nodes' = (0 :> [value |-> data[1], x |-> 0, y |-> 0])
            /\ edges' = <<>>
            /\ i' = 1
            /\ pc' = "tree_children"
    /\ UNCHANGED <<requestVars, mobjects, steps, step_texts, stackVars, flowVars,
                   scriptVars, serviceVars, otherVars, arrayVars>>

\* One iteration of "for i in range(1, min(len(data), 7))".
TreeAddChild ==
    /\ family = "DataStructure"
    /\ pc = "tree_children"
    /\ i \in ChildRange(data)
    /\ LET position == tree_position(i)
           node_group == [value |-> data[i + 1], x |-> position.x, y |-> position.y]
           parent == parent_index(i)
       IN /\ nodes' = nodes @@ (i :> node_group)
          /\ edges' = IF parent \in DOMAIN nodes
                      THEN Append(edges, [from |-> parent, to |-> i])
                      ELSE edges
    /\ i' = i + 1
    /\ UNCHANGED <<requestVars, pc, mobjects, steps, step_texts, stackVars, flowVars,
                   scriptVars, serviceVars, otherVars, arrayVars>>

\* After the loop: the properties text and the end of construct().
TreeShowProperties ==
    /\ family = "DataStructure"
    /\ pc = "tree_children"
    /\ i \notin ChildRange(data)
    /\ mobjects' = mobjects \cup {"properties"}
    /\ pc' = "done"
    /\ UNCHANGED <<requestVars, i, steps, step_texts, stackVars, treeVars, flowVars,
                   scriptVars, serviceVars, otherVars, arrayVars>>

-----------------------------------------------------------------------------
(* Data structure scene: array, linked list and the generic layout.        *)

\* create_array_visualization up to the call of perform_array_operations:
\* one box, value and index per item of data, then the properties text.
ArrayCreate ==
    /\ family = "DataStructure"
    /\ pc = "create_array_visualization"
    /\ boxes' = data
    /\ mobjects' = mobjects \cup {"properties"}
    /\ i' = 0
    /\ pc' = Call("perform_array_operations")
    /\ UNCHANGED <<requestVars, steps, step_texts, stackVars, treeVars, flowVars,
                   scriptVars, serviceVars, otherVars, op_steps>>

\* One iteration of "for operation in operations" of
\* perform_array_operations.  boxes[index] raises IndexError past the end.
ArrayOperation ==
    /\ family = "DataStructure"
    /\ pc = "perform_array_operations"
    /\ i < Len(operations)
    /\ LET operation == operations[i + 1]
           op_type == Get(operation, "type", "access")
           index == Get(operation, "index", 0)
           value_is_none == "value" \notin DOMAIN operation
           routine == IF op_type = "access" THEN "highlight_array_element"
                      ELSE IF op_type = "update" /\ ~value_is_none THEN "update_array_element"
                      ELSE IF op_type = "search" THEN "search_array_element"
                      ELSE "none"
       IN IF routine = "none"
          THEN /\ pc' = pc
               /\ op_steps' = op_steps
          ELSE IF Call(routine) = "error" \/ (op_type # "search" /\ index >= Len(boxes))
          THEN /\ pc' = "error"
               /\ op_steps' = op_steps
          ELSE /\ pc' = pc
               /\ op_steps' = Append(op_steps, [routine |-> routine, index |-> index])
    /\ i' = i + 1
    /\ UNCHANGED <<requestVars, mobjects, steps, step_texts, stackVars, treeVars, flowVars,
                   scriptVars, serviceVars, otherVars, boxes>>

\* The operations are over: the end of construct().
ArrayFinish ==
    /\ family = "DataStructure"
    /\ pc = "perform_array_operations"
    /\ i = Len(operations)
    /\ pc' = "done"
    /\ UNCHANGED <<requestVars, i, mobjects, steps, step_texts, stackVars, treeVars,
                   flowVars, scriptVars, serviceVars, otherVars, arrayVars>>

\* create_linked_list_visualization: the nodes and the properties text,
\* then the call of perform_linked_list_operations.
LinkedListCreate ==
    /\ family = "DataStructure"
    /\ pc = "create_linked_list_visualization"
    /\ mobjects' = mobjects \cup {"properties"}
    /\ pc' = Call("perform_linked_list_operations")
    /\ UNCHANGED <<requestVars, i, steps, step_texts, stackVars, treeVars, flowVars,
                   scriptVars, serviceVars, otherVars, arrayVars>>

\* create_generic_visualization: a title and one label of the data, and
\* the end of construct().
GenericCreate ==
    /\ family = "DataStructure"
    /\ pc = "create_generic_visualization"
    /\ mobjects' = mobjects \cup {"generic_title", "data_text"}
    /\ pc' = "done"
    /\ UNCHANGED <<requestVars, i, steps, step_texts, stackVars, treeVars, flowVars,
                   scriptVars, serviceVars, otherVars, arrayVars>>

-----------------------------------------------------------------------------
(* HTTP flow scene.                                                        *)

\* construct() up to the call of animate_http_cycle,
\* create_client_server_architecture included.
HttpConstruct ==
    /\ family = "HTTPFlow"
    /\ pc = "construct"
    /\ mobjects' = {"title", "protocol", "client_group", "server_group", "internet_group"}
    /\ i' = 0
    /\ pc' = "animate_http_cycle"
    /\ UNCHANGED <<requestVars, steps, step_texts, stackVars, treeVars, flowVars,
                   scriptVars, serviceVars, otherVars, arrayVars>>

\* step_number = i + 1
step_number(k) == k + 1

\* Every step drawn as a request.
is_request_always(direction) == TRUE

\* "if direction == 'request':" of animate_http_cycle
is_request(direction) == direction = "request"

\* One iteration of "for i, step in enumerate(steps_data)": the indicator,
\* then animate_request (client to server) or animate_response (server to
\* client).
HttpAnimateStep ==
    /\ family = "HTTPFlow"
    /\ pc = "animate_http_cycle"
    /\ i < Len(steps_data)
    /\ LET step == steps_data[i + 1]
           description == Get(step, "description", "Step {step_number}")
           direction == Get(step, "direction", "request")
       IN step_texts' = Append(step_texts,
              [number  |-> step_number(i),
               message |-> description,
               from    |-> IF is_request(direction) THEN "client" ELSE "server",
               to      |-> IF is_request(direction) THEN "server" ELSE "client"])
    /\ i' = i + 1
    /\ UNCHANGED <<requestVars, pc, mobjects, steps, stackVars, treeVars, flowVars,
                   scriptVars, serviceVars, otherVars, arrayVars>>

\* The loop is over: show_summary and the end of construct().
HttpShowSummary ==
    /\ family = "HTTPFlow"
    /\ pc = "animate_http_cycle"
    /\ i = Len(steps_data)
    /\ mobjects' = mobjects \cup {"summary_title", "summary_text"}
    /\ pc' = "done"
    /\ UNCHANGED <<requestVars, i, steps, step_texts, stackVars, treeVars, flowVars,
                   scriptVars, serviceVars, otherVars, arrayVars>>

-----------------------------------------------------------------------------
(* Process flow scene: the three layouts and the summary.                  *)

\* Angles are in units of 1/840 of a degree, so that a half turn is PI and
\* every division below is exact for up to 10 stages.
PI == 151200

\* radius = 2.5, in tenths
radius == 25

\* The angle without the quarter turn that starts the circle at the top.
circular_angle_from_right(k, num_steps) == (k * 2 * PI) \div num_steps

\* angle = i * 2 * PI / num_steps - PI/2
circular_angle(k, num_steps) == (k * 2 * PI) \div num_steps - PI \div 2

\* i + 1 in place of (i + 1) % num_steps
next_index_no_wrap(k, num_steps) == k + 1

\* next_i = (i + 1) % num_steps
next_index(k, num_steps) == (k + 1) % num_steps

\* construct() of the process flow scene up to the layout it dispatches to.
ProcessFlowConstruct ==
    /\ family = "ProcessFlow"
    /\ pc = "construct"
    /\ mobjects' = {"title"}
    /\ pc' = IF flow_type = "linear" THEN "create_linear_flow"
             ELSE IF flow_type = "branching" THEN "create_branching_flow"
             ELSE IF flow_type = "circular" THEN "create_circular_flow"
             ELSE "create_linear_flow"
    /\ UNCHANGED <<requestVars, i, steps, step_texts, stackVars, treeVars, flowVars,
                   scriptVars, serviceVars, otherVars, arrayVars>>

\* One iteration of "for i, step in enumerate(steps_data)" of
\* create_linear_flow: the shape at y = 2 - i * 1.8 (in tenths) and, but
\* for the last step, the arrow below it.
LinearPlaceStage ==
    /\ family = "ProcessFlow"
    /\ pc = "create_linear_flow"
    /\ i < Len(steps_data)
    /\ LET step == steps_data[i + 1]
       IN /\ step_objects' = Append(step_objects,
                 [name |-> Get(step, "name", "Step {i+1}"),
                  type |-> Get(step, "type", "process"),
                  y    |-> 20 - i * 18])
          /\ arrows' = IF i < Len(steps_data) - 1
                       THEN Append(arrows, [from |-> i, to |-> i + 1])
                       ELSE arrows
    /\ i' = i + 1
    /\ UNCHANGED <<requestVars, pc, mobjects, steps, step_texts, stackVars, treeVars, summary, played,
                   scriptVars, serviceVars, otherVars, arrayVars>>

\* self.play(Create(x)) of one step object or arrow: what is shown, and the
\* place it has in its list.
Shown(kind, list, k) == [kind |-> kind, index |-> k - 1, object |-> list[k]]

\* The arrows paired one step late: zip(step_objects, [None] + arrows).
ZipNoneFirst(objects, arrow_list) ==
    [k \in 1..Min(Len(objects), Len(arrow_list) + 1) |->
        [step_obj |-> k, arrow |-> IF k > 1 THEN k - 1 ELSE 0]]

\* zip(step_objects, arrows + [None]): the pairs as places in the two
\* lists, 0 for None; zip stops with the shorter of the two.
ZipNoneLast(objects, arrow_list) ==
    [k \in 1..Min(Len(objects), Len(arrow_list) + 1) |->
        [step_obj |-> k, arrow |-> IF k <= Len(arrow_list) THEN k ELSE 0]]

\* "for i, (step_obj, arrow) in enumerate(zip(...))": the step object is
\* played, then the arrow when there is one.
RECURSIVE PlayPairs(_, _, _)
PlayPairs(pairs, objects, arrow_list) ==
    IF pairs = <<>> THEN <<>>
    ELSE LET pair == Head(pairs)
         IN <<Shown("step", objects, pair.step_obj)>>
            \o (IF pair.arrow # 0 THEN <<Shown("arrow", arrow_list, pair.arrow)>> ELSE <<>>)
            \o PlayPairs(Tail(pairs), objects, arrow_list)

\* "for x in list: self.play(Create(x))"
PlayEach(kind, list) == [k \in 1..Len(list) |-> Shown(kind, list, k)]

\* After the loop: the step objects and arrows are played in turn.
LinearAnimate ==
    /\ family = "ProcessFlow"
    /\ pc = "create_linear_flow"
    /\ i = Len(steps_data)
    /\ played' = PlayPairs(ZipNoneLast(step_objects, arrows), step_objects, arrows)
    /\ pc' = "show_process_summary"
    /\ UNCHANGED <<requestVars, i, mobjects, steps, step_texts, stackVars, treeVars,
                   step_objects, arrows, summary, scriptVars, serviceVars, otherVars,
                   arrayVars>>

\* [step for step in steps_data if step.get('branch', 'main') == 'main']
main_steps(items) == SelectSeq(items, LAMBDA step : Get(step, "branch", "main") = "main")

\* [step for step in steps_data if step.get('branch', 'main') != 'main']
branch_steps(items) == SelectSeq(items, LAMBDA step : Get(step, "branch", "main") # "main")

\* The last step with the condition in place of the first.
LastWithCondition(items, cond) ==
    LET hits == {k \in 1..Len(items) : Get(items[k], "condition", "") = cond}
    IN IF hits = {} THEN <<>>
       ELSE <<items[CHOOSE k \in hits : \A m \in hits : k >= m]>>

\* next((s for s in branch_steps if s.get('condition') == cond), None): the
\* first such step as a one-item list, the empty list for None.
FirstWithCondition(items, cond) ==
    LET hits == {k \in 1..Len(items) : Get(items[k], "condition", "") = cond}
    IN IF hits = {} THEN <<>>
       ELSE <<items[CHOOSE k \in hits : \A m \in hits : k <= m]>>

\* Branches drawn for every stage of the main flow.
OwnsBranchesAlways(step_type) == TRUE

\* "if step_type == 'decision':"
OwnsBranches(step_type) == step_type = "decision"

\* One iteration of "for i, step in enumerate(main_steps)" of
\* create_branching_flow: the shape of main stage i at (0, 2 - 2i), for a
\* decision the first 'yes' step 3 to the right and the first 'no' step 3
\* to the left of it, each with its arrow and label, and, but for the last
\* main stage, the arrow below.
BranchingPlaceStage ==
    /\ family = "ProcessFlow"
    /\ pc = "create_branching_flow"
    /\ i < Len(main_steps(steps_data))
    /\ LET step == main_steps(steps_data)[i + 1]
           step_type == Get(step, "type", "process")
           shape == [name |-> Get(step, "name", "Step {i+1}"), type |-> step_type,
                     role |-> "main", owner |-> i, x |-> 0, y |-> 2 - i * 2]
           yes_step == IF OwnsBranches(step_type)
                       THEN FirstWithCondition(branch_steps(steps_data), "yes")
                       ELSE <<>>
           no_step == IF OwnsBranches(step_type)
                      THEN FirstWithCondition(branch_steps(steps_data), "no")
                      ELSE <<>>
           yes_shape == [s \in 1..Len(yes_step) |->
                            [name |-> Get(yes_step[s], "name", "Yes"), type |-> "process",
                             role |-> "yes", owner |-> i, x |-> 3, y |-> 2 - i * 2]]
           no_shape == [s \in 1..Len(no_step) |->
                           [name |-> Get(no_step[s], "name", "No"), type |-> "process",
                            role |-> "no", owner |-> i, x |-> -3, y |-> 2 - i * 2]]
           yes_arrows == IF yes_step = <<>> THEN <<>>
                         ELSE <<[kind |-> "yes_arrow", from |-> i], [kind |-> "yes_label", from |-> i]>>
           no_arrows == IF no_step = <<>> THEN <<>>
                        ELSE <<[kind |-> "no_arrow", from |-> i], [kind |-> "no_label", from |-> i]>>
           main_arrow == IF i < Len(main_steps(steps_data)) - 1
                         THEN <<[kind |-> "main_arrow", from |-> i]>>
                         ELSE <<>>
       IN /\ step_objects' = step_objects \o <<shape>> \o yes_shape \o no_shape
          /\ arrows' = arrows \o yes_arrows \o no_arrows \o main_arrow
    /\ i' = i + 1
    /\ UNCHANGED <<requestVars, pc, mobjects, steps, step_texts, stackVars, treeVars, summary, played,
                   scriptVars, serviceVars, otherVars, arrayVars>>

\* After the loop: the step objects are played, then the arrows.
BranchingAnimate ==
    /\ family = "ProcessFlow"
    /\ pc = "create_branching_flow"
    /\ i = Len(main_steps(steps_data))
    /\ played' = PlayEach("step", step_objects) \o PlayEach("arrow", arrows)
    /\ pc' = "show_process_summary"
    /\ UNCHANGED <<requestVars, i, mobjects, steps, step_texts, stackVars, treeVars,
                   step_objects, arrows, summary, scriptVars, serviceVars, otherVars,
                   arrayVars>>

\* create_circular_flow without its test of the empty list.
NoStagesUnchecked(items) == FALSE

\* "not steps_data": a list is false exactly when it is empty.
NoStages(items) == items = <<>>

\* create_circular_flow up to the loop: "if not steps_data: return".
CircularStart ==
    /\ family = "ProcessFlow"
    /\ pc = "create_circular_flow"
    /\ IF NoStages(steps_data)
       THEN pc' = "show_process_summary"
       ELSE pc' = "circular_stages"
    /\ i' = 0
    /\ UNCHANGED <<requestVars, mobjects, steps, step_texts, stackVars, treeVars, flowVars,
                   scriptVars, serviceVars, otherVars, arrayVars>>

\* One iteration of "for i, step in enumerate(steps_data)": the shape of
\* stage i at (radius*cos(angle), radius*sin(angle)) and the arrow from it
\* to the place of stage next_i.
CircularPlaceStage ==
    /\ family = "ProcessFlow"
    /\ pc = "circular_stages"
    /\ i < Len(steps_data)
    /\ LET num_steps == Len(steps_data)
           step == steps_data[i + 1]
           angle == circular_angle(i, num_steps)
           next_i == next_index(i, num_steps)
           next_angle == circular_angle(next_i, num_steps)
       IN /\ step_objects' = Append(step_objects,
                 [name   |-> Get(step, "name", "Step {i+1}"),
                  type   |-> Get(step, "type", "process"),
                  radius |-> radius,
                  angle  |-> angle])
          /\ arrows' = Append(arrows,
                 [from |-> i, to |-> next_i,
                  start_angle |-> angle, end_angle |-> next_angle])
    /\ i' = i + 1
    /\ UNCHANGED <<requestVars, pc, mobjects, steps, step_texts, stackVars, treeVars, summary, played,
                   scriptVars, serviceVars, otherVars, arrayVars>>

\* After the loop: the shapes and arrows are played and the cycle text shown.
CircularAnimate ==
    /\ family = "ProcessFlow"
    /\ pc = "circular_stages"
    /\ i = Len(steps_data)
    /\ played' = PlayEach("step", step_objects) \o PlayEach("arrow", arrows)
    /\ mobjects' = mobjects \cup {"cycle_text"}
    /\ pc' = "show_process_summary"
    /\ UNCHANGED <<requestVars, i, steps, step_texts, stackVars, treeVars,
                   step_objects, arrows, summary, scriptVars, serviceVars, otherVars,
                   arrayVars>>

\* The tally taken over the stages of the main branch alone.
step_counts_of_main_steps(items) ==
    LET types == {Get(main_steps(items)[k], "type", "process") : k \in 1..Len(main_steps(items))}
    IN [t \in types |->
           Cardinality({k \in 1..Len(main_steps(items)) :
                            Get(main_steps(items)[k], "type", "process") = t})]

\* step_counts of show_process_summary: the number of items of each type.
step_counts(items) ==
    LET types == {Get(items[k], "type", "process") : k \in 1..Len(items)}
    IN [t \in types |->
           Cardinality({k \in 1..Len(items) : Get(items[k], "type", "process") = t})]

\* show_process_summary and the end of construct().
ShowProcessSummary ==
    /\ family = "ProcessFlow"
    /\ pc = "show_process_summary"
    /\ IF steps_data = <<>>
       THEN UNCHANGED <<mobjects, summary>>
       ELSE /\ mobjects' = mobjects \cup {"summary_box", "summary_content"}
            /\ summary' = [total_steps |-> Len(steps_data),
                           step_counts |-> step_counts(steps_data)]
    /\ pc' = "done"
    /\ UNCHANGED <<requestVars, i, steps, step_texts, stackVars, treeVars,
                   step_objects, arrows, played, scriptVars, serviceVars, otherVars, arrayVars>>

-----------------------------------------------------------------------------
(* DataStructureGenerator.get_complexity_data.                             *)

ComplexityFields == {"access", "search", "insert", "delete", "space"}

\* The dict display `complexities`.
ComplexityTable ==
    [array       |-> [access |-> "O(1)", search |-> "O(n)", insert |-> "O(n)",
                      delete |-> "O(n)", space |-> "O(n)"],
     linked_list |-> [access |-> "O(n)", search |-> "O(n)", insert |-> "O(1)",
                      delete |-> "O(1)", space |-> "O(n)"],
     stack       |-> [access |-> "O(n)", search |-> "O(n)", insert |-> "O(1)",
                      delete |-> "O(1)", space |-> "O(n)"],
     queue       |-> [access |-> "O(n)", search |-> "O(n)", insert |-> "O(1)",
                      delete |-> "O(1)", space |-> "O(n)"],
     binary_tree |-> [access |-> "O(log n)", search |-> "O(log n)", insert |-> "O(log n)",
                      delete |-> "O(log n)", space |-> "O(n)"],
     hash_table  |-> [access |-> "N/A", search |-> "O(1)", insert |-> "O(1)",
                      delete |-> "O(1)", space |-> "O(n)"],
     graph       |-> [access |-> "O(V+E)", search |-> "O(V+E)", insert |-> "O(1)",
                      delete |-> "O(V+E)", space |-> "O(V+E)"]]

\* The second argument of complexities.get(...).
UnknownComplexity ==
    [access |-> "O(?)", search |-> "O(?)", insert |-> "O(?)", delete |-> "O(?)",
     space |-> "O(?)"]

\* The dict after dict.setdefault(key, default), which stores the default.
DictAfterSetdefault(d, key, default) ==
    IF key \in DOMAIN d THEN d ELSE d @@ (key :> default)

\* The dict after dict.get(key, default): as it was.
DictAfterGet(d, key, default) == d

\* The kinds get_complexity_data is called with.
ComplexityKinds == StructureKinds \cup {"trie", ""}

\* One call: the dict is built, the entry of the kind or the default is
\* returned.
GetComplexityData ==
    /\ pc \in {"generator", "returned", "caller"}
    /\ \E kind \in ComplexityKinds :
          /\ structure_type' = kind
          /\ complexity_data' = Get(ComplexityTable, kind, UnknownComplexity)
          /\ complexities' = DictAfterGet(ComplexityTable, kind, UnknownComplexity)
    /\ pc' = "returned"
    /\ UNCHANGED <<inputVars, domain, show_cache, show_timing, protocol_version, data,
                   operations, flow_type, steps_data, sceneVars, scriptVars,
                   serviceVars, concurrentVars, sortVars>>

\* The caller assigns to a field of the record it was returned, which for a
\* kind of the table is the entry of the dict of that call.
ModifyReturned ==
    /\ pc \in {"returned", "caller"}
    /\ \E field \in ComplexityFields :
          /\ complexity_data[field] # "changed"
          /\ complexity_data' = [complexity_data EXCEPT ![field] = "changed"]
    /\ complexities' = IF structure_type \in DOMAIN complexities
                       THEN [complexities EXCEPT ![structure_type] = complexity_data']
                       ELSE complexities
    /\ pc' = "caller"
    /\ UNCHANGED <<requestVars, sceneVars, scriptVars, serviceVars, concurrentVars,
                   sortVars>>

-----------------------------------------------------------------------------
(* Concurrent requests and the status endpoint.                            *)

\* The server answers each request in a thread of its own; two generation
\* requests are under way.
CallIds == {"first", "second"}

HexChars == {"a", "b"}

\* str(uuid.uuid4()): groups of hexadecimal digits of fixed lengths, with
\* hyphens between them.
Uuids == {<<x, "-", y>> : x \in HexChars, y \in HexChars}

\* The families of the concurrent requests: one whose generate_script
\* returns a script and the one whose generate_script raises.
ConcurrentFamilies == {"HTTPFlow", "DataStructure"}

\* The step of a call: only the call c changes, to the record next.
CallStep(c, next) == calls' = [calls EXCEPT ![c] = next]

\* generate_*_diagram up to the call of _execute_manim_script: the id is
\* drawn and generate_script returns the script or raises.
CallGenerate(c) ==
    /\ calls[c].pc = "generate"
    /\ IF \A spec \in TemplateFormatSpecs(calls[c].family) : ValidStrFormatSpec(spec)
       THEN CallStep(c, [calls[c] EXCEPT !.pc = "write_script"])
       ELSE CallStep(c, [calls[c] EXCEPT !.pc = "returned",
                                         !.result = Failure(500, "Internal server error")])
    /\ UNCHANGED <<requestVars, pc, sceneVars, scriptVars, serviceVars, status_report,
                   complexityVars, sortVars>>

\* "with open(script_file, 'w') as f: f.write(script_content)" and the
\* start of the manim command.
CallWriteScript(c) ==
    /\ calls[c].pc = "write_script"
    /\ files' = files \cup {ScriptFile(calls[c].animation_id)}
    /\ CallStep(c, [calls[c] EXCEPT !.pc = "run_manim"])
    /\ UNCHANGED <<requestVars, pc, sceneVars, scriptVars, response, status_report,
                   complexityVars, sortVars>>

\* subprocess.run returns or raises: manim has run the scene and left its
\* video (return code 0), has failed (return code 1) or is killed after
\* 120 seconds.
CallManimExit(c) ==
    /\ calls[c].pc = "run_manim"
    /\ \/ \E rendered \in Rendered(calls[c].family, calls[c].animation_id) :
             /\ files' = files \cup rendered
             /\ CallStep(c, [calls[c] EXCEPT !.pc = "find_video", !.exit = "0",
                                             !.rendered = rendered])
       \/ /\ files' = files
          /\ CallStep(c, [calls[c] EXCEPT !.pc = "raise", !.exit = "1"])
       \/ /\ files' = files
          /\ CallStep(c, [calls[c] EXCEPT !.pc = "raise", !.exit = "timeout"])
    /\ UNCHANGED <<requestVars, pc, sceneVars, scriptVars, response, status_report,
                   complexityVars, sortVars>>

\* The ManimServiceError of a return code other than 0 and of a timeout.
CallRaise(c) ==
    /\ calls[c].pc = "raise"
    /\ CallStep(c, [calls[c] EXCEPT
           !.pc = "finally",
           !.result = IF calls[c].exit = "timeout"
                      THEN Failure(500, "Manim execution timed out")
                      ELSE Failure(500, "Error executing Manim script: Manim execution failed")])
    /\ UNCHANGED <<requestVars, pc, sceneVars, scriptVars, serviceVars, status_report,
                   complexityVars, sortVars>>

\* The search for the video file: the result with video_files[0], or the
\* ManimServiceError when no file is found.
CallFindVideo(c) ==
    /\ calls[c].pc = "find_video"
    /\ LET video_files == FindVideo(files, calls[c].family, calls[c].animation_id)
       IN IF video_files = {}
          THEN CallStep(c, [calls[c] EXCEPT
                   !.pc = "finally",
                   !.result = Failure(500, "Error executing Manim script: Generated video file not found")])
          ELSE \E video_file \in video_files :
                   CallStep(c, [calls[c] EXCEPT
                       !.pc = "finally",
                       !.result = Success(calls[c].animation_id, video_file)])
    /\ UNCHANGED <<requestVars, pc, sceneVars, scriptVars, serviceVars, status_report,
                   complexityVars, sortVars>>

\* "finally: if script_file.exists(): script_file.unlink()", and the
\* endpoint's answer.
CallFinally(c) ==
    /\ calls[c].pc = "finally"
    /\ files' = Unlink(files, ScriptFile(calls[c].animation_id))
    /\ CallStep(c, [calls[c] EXCEPT !.pc = "returned"])
    /\ UNCHANGED <<requestVars, pc, sceneVars, scriptVars, response, status_report,
                   complexityVars, sortVars>>

\* The ids the status endpoint is asked for: those of requests, ids never
\* given to a request, and two that are no uuids.
StatusIds == Uuids \cup {<<"*">>, <<"?">>}

\* Path.glob raises ValueError for a pattern with "**" inside a component.
InvalidPattern(pattern) ==
    \E k \in 1..(Len(pattern) - 1) : pattern[k] = "*" /\ pattern[k + 1] = "*"

\* get_status: 'completed' with video_files[0] when the glob finds a file,
\* 'processing' when it finds none, 500 when it raises.
GetStatus ==
    /\ \E id \in StatusIds :
          IF InvalidPattern(IdPattern(id))
          THEN status_report' = Failure(500, "Error checking status")
          ELSE LET video_files == Glob(files, IdPattern(id))
               IN IF video_files # {}
                  THEN \E video_file \in video_files :
                           status_report' = [code |-> 200, id |-> id, status |-> "completed",
                                             file_path |-> video_file]
                  ELSE status_report' = [code |-> 200, id |-> id, status |-> "processing"]
    /\ UNCHANGED <<requestVars, pc, sceneVars, scriptVars, serviceVars, calls,
                   complexityVars, sortVars>>

-----------------------------------------------------------------------------
(* Algorithm scene: animate_bubble_sort.                                   *)

\* What the sort leaves alone.
sortFrame == <<inputVars, domain, show_cache, show_timing, protocol_version,
               structure_type, operations, flow_type, steps_data, scriptVars,
               mobjects, steps, step_texts, stackVars, treeVars, flowVars,
               arrayVars, serviceVars, concurrentVars, complexityVars>>

\* algorithm_data.get('data', [64, 34, 25, 12, 22, 11, 90])
DefaultSortData == <<64, 34, 25, 12, 22, 11, 90>>

\* max(data) of a list that is not empty
max(list) == CHOOSE x \in {list[k] : k \in 1..Len(list)} :
                 \A k \in 1..Len(list) : x >= list[k]

\* list[a], list[b] = list[b], list[a], the places counted from 1
SwapItems(list, a, b) == [list EXCEPT ![a] = list[b], ![b] = list[a]]

\* x.animate.shift(RIGHT * 0.8 * d): the places are 0.8 apart
ShiftSlots(x, d) == [x EXCEPT !.slot = @ + d]

\* x.animate.set_color(c)
SetColor(x, c) == [x EXCEPT !.color = c]

\* One iteration of "for i, value in enumerate(data)": the bar of height
\* value / max(data) * 3, held as the fraction, and the label below it,
\* both at place i.  The division raises ZeroDivisionError when the
\* greatest item is 0.
SortCreateBar ==
    /\ family = "Algorithm"
    /\ pc = "animate_bubble_sort"
    /\ i < Len(data)
    /\ IF max(data) = 0
       THEN /\ pc' = "error"
            /\ UNCHANGED <<i, bars, values>>
       ELSE LET value == data[i + 1]
            IN /\ bars' = Append(bars, [value |-> value, slot |-> i, color |-> "BLUE",
                                        height |-> [num |-> value * 3, den |-> max(data)]])
               /\ values' = Append(values, [text |-> value, slot |-> i])
               /\ i' = i + 1
               /\ pc' = pc
    /\ UNCHANGED <<sortFrame, data, j>>

\* After the loop: the bars and the labels are played; n = len(data) and
\* the two loops of the sort begin.
SortShowBars ==
    /\ family = "Algorithm"
    /\ pc = "animate_bubble_sort"
    /\ i = Len(data)
    /\ i' = 0
    /\ j' = 0
    /\ pc' = "bubble_sort"
    /\ UNCHANGED <<sortFrame, data, bars, values>>

\* bars[j], bars[j + 1] = bars[j + 1], bars[j], and the same of values
UpdateReferences(list, a, b) == SwapItems(list, a, b)

\* One iteration of "for j in range(0, n - i - 1)": the two bars turn red;
\* when data[j] > data[j + 1] the items are exchanged, the bars and labels
\* move one place and the references are exchanged; the bars turn blue.
SortCompare ==
    /\ family = "Algorithm"
    /\ pc = "bubble_sort"
    /\ i < Len(data)
    /\ j < Len(data) - i - 1
    /\ LET a == j + 1
           b == j + 2
           reset(list) == [list EXCEPT ![a] = SetColor(@, "BLUE"),
                                       ![b] = SetColor(@, "BLUE")]
       IN IF data[a] > data[b]
          THEN /\ data' = SwapItems(data, a, b)
               /\ bars' = reset(UpdateReferences(
                              [bars EXCEPT ![a] = ShiftSlots(@, 1), ![b] = ShiftSlots(@, -1)],
                              a, b))
               /\ values' = UpdateReferences(
                              [values EXCEPT ![a] = ShiftSlots(@, 1), ![b] = ShiftSlots(@, -1)],
                              a, b)
          ELSE /\ bars' = reset(bars)
               /\ UNCHANGED <<data, values>>
    /\ j' = j + 1
    /\ UNCHANGED <<sortFrame, i, pc>>

\* The inner loop is over: bars[n - 1 - i] turns green and the outer loop
\* goes on.
SortMarkSorted ==
    /\ family = "Algorithm"
    /\ pc = "bubble_sort"
    /\ i < Len(data)
    /\ j >= Len(data) - i - 1
    /\ bars' = [bars EXCEPT ![Len(data) - i] = SetColor(@, "GREEN")]
    /\ i' = i + 1
    /\ j' = 0
    /\ UNCHANGED <<sortFrame, data, values, pc>>

\* The outer loop is over: "if bars:" the first bar turns green.
SortFinish ==
    /\ family = "Algorithm"
    /\ pc = "bubble_sort"
    /\ i = Len(data)
    /\ bars' = IF bars # <<>> THEN [bars EXCEPT ![1] = SetColor(@, "GREEN")] ELSE bars
    /\ pc' = "done"
    /\ UNCHANGED <<sortFrame, data, values, i, j>>

-----------------------------------------------------------------------------

(* The requests.                                                           *)

\* A parameter that is absent (the empty map) or present with a value of Vals.
Opt(key, Vals) == {<<>>} \cup {key :> v : v \in Vals}

\* str(uuid.uuid4()): hexadecimal digits and hyphens.
UuidChars == {"a", "-"}

\* The ids generate_http_flow_diagram and the like draw.
AnimationIds == SeqsUpTo(UuidChars, MaxIdLen) \ {<<>>}

\* The characters of the ids a caller of generate_script may pass.
IdChars == {"a", "-", "."}

DnsParams ==
    {a @@ b @@ c : a \in Opt("domain", Domains),
                   b \in Opt("show_cache", BOOLEAN),
                   c \in Opt("show_timing", BOOLEAN)}

HttpItems ==
    { [description |-> "Send request", direction |-> "request"],
      [description |-> "Send response", direction |-> "response"],
      [method |-> "GET"] }

HttpParams ==
    {a @@ b : a \in Opt("steps", SeqsUpTo(HttpItems, MaxHttpSteps)),
              b \in Opt("protocol_version", {"HTTP/2"})}

StackOps ==
    { [type |-> "push", value |-> 10], [type |-> "push", value |-> 20],
      [type |-> "pop"], [type |-> "peek"] }

StackParams ==
    {("type" :> "stack") @@ a @@ b :
        a \in Opt("data", SeqsUpTo(Values, MaxData)),
        b \in Opt("operations", SeqsUpTo(StackOps, MaxOps))}

TreeParams ==
    {("type" :> "binary_tree") @@ a : a \in Opt("data", SeqsUpTo(Values, MaxTreeData))}

ArrayOps ==
    { [type |-> "access", index |-> 0],
      [type |-> "update", index |-> 1, value |-> 10],
      [type |-> "update", index |-> 0],
      [type |-> "search", value |-> 10],
      [type |-> "insert", index |-> 0, value |-> 20] }

ArrayParams ==
    {t @@ a @@ b :
        t \in Opt("type", {"array"}),
        a \in Opt("data", SeqsUpTo(Values, MaxData)),
        b \in Opt("operations", SeqsUpTo(ArrayOps, MaxArrayOps))}

OtherKinds == {"linked_list", "queue", "hash_table", "graph", "trie"}

OtherKindParams ==
    {("type" :> k) @@ a @@ b :
        k \in OtherKinds,
        a \in Opt("data", {<<10>>}),
        b \in Opt("operations", {<<[type |-> "push", value |-> 10]>>})}

DataStructureParams == StackParams \cup TreeParams \cup ArrayParams \cup OtherKindParams

StageItems ==
    { [name |-> "Commit", type |-> "start"], [name |-> "Build"] }

BranchItems ==
    { [name |-> "Start", type |-> "start", branch |-> "main"],
      [name |-> "Check", type |-> "decision"],
      [name |-> "Grant", branch |-> "yes", condition |-> "yes"],
      [name |-> "Deny", branch |-> "no", condition |-> "no"],
      [name |-> "Retry", type |-> "decision", branch |-> "loop"] }

\* The same with a second 'yes' entry and an entry of the main branch that
\* has a condition.
DecisionItems ==
    BranchItems \cup { [name |-> "Allow", branch |-> "yes", condition |-> "yes"],
                       [name |-> "Pass", condition |-> "yes"] }

BranchingParams ==
    {("flow_type" :> "branching") @@ a :
        a \in Opt("steps", SeqsUpTo(DecisionItems, MaxDecisionSteps))}

ProcessFlowParams ==
    {("flow_type" :> "circular") @@ a :
        a \in Opt("steps", SeqsUpTo(StageItems, MaxStages))}
    \cup {t @@ a :
        t \in Opt("flow_type", {"linear", "spiral"}),
        a \in Opt("steps", SeqsUpTo(StageItems, MaxLinearSteps))}
    \cup {("flow_type" :> "branching") @@ a :
        a \in Opt("steps", SeqsUpTo(BranchItems, MaxBranchSteps))}

ParamMaps(fam) ==
    CASE fam = "DNSResolution" -> DnsParams
      [] fam = "HTTPFlow"      -> HttpParams
      [] fam = "DataStructure" -> DataStructureParams
      [] fam = "ProcessFlow"   -> ProcessFlowParams

\* Nothing is assigned before generate_script runs.
InitLocals ==
    /\ domain = Unset.domain
    /\ show_cache = Unset.show_cache
    /\ show_timing = Unset.show_timing
    /\ protocol_version = Unset.protocol_version
    /\ structure_type = Unset.structure_type
    /\ data = Unset.data
    /\ operations = Unset.operations
    /\ flow_type = Unset.flow_type
    /\ steps_data = Unset.steps_data

InitScene ==
    /\ i = 0
    /\ mobjects = {}
    /\ steps = <<>>
    /\ step_texts = <<>>
    /\ current_elements = <<>>
    /\ scene_elements = {}
    /\ nodes = <<>>
    /\ edges = <<>>
    /\ boxes = <<>>
    /\ op_steps = <<>>
    /\ step_objects = <<>>
    /\ arrows = <<>>
    /\ summary = <<>>
    /\ played = <<>>

\* OUTPUT_DIR holds nothing of the request and no answer is given.
InitService ==
    /\ files = {}
    /\ response = <<>>

\* No other call is under way, get_complexity_data has not been called and
\* no sort is run.
InitOther ==
    /\ calls = <<>>
    /\ status_report = <<>>
    /\ complexities = <<>>
    /\ complexity_data = <<>>
    /\ bars = <<>>
    /\ values = <<>>
    /\ j = 0

\* A request arrives at one of the four endpoints.
Init ==
    /\ family \in Families
    /\ params \in ParamMaps(family)
    /\ animation_id \in AnimationIds
    /\ class_declared = <<>>
    /\ class_rendered = <<>>
    /\ pc = "request"
    /\ InitLocals
    /\ InitScene
    /\ InitService
    /\ InitOther

Next ==
    \/ HandleRequest
    \/ GenerateScript
    \/ RespondInternalError
    \/ ExecuteManimScript
    \/ ManimTimeout
    \/ ManimFails
    \/ FinishExecute
    \/ DnsConstruct
    \/ DnsBuildSteps
    \/ DnsAnimateStep
    \/ DnsShowResult
    \/ HttpConstruct
    \/ HttpAnimateStep
    \/ HttpShowSummary
    \/ ProcessFlowConstruct
    \/ LinearPlaceStage
    \/ LinearAnimate
    \/ BranchingPlaceStage
    \/ BranchingAnimate
    \/ CircularStart
    \/ CircularPlaceStage
    \/ CircularAnimate
    \/ ShowProcessSummary

Spec == Init /\ [][Next]_vars

\* generate_script called by itself, as the tests call it, with any id.
GeneratorInit ==
    /\ family \in Families
    /\ params \in ParamMaps(family)
    /\ animation_id \in SeqsUpTo(IdChars, MaxIdLen)
    /\ class_declared = <<>>
    /\ class_rendered = <<>>
    /\ pc = "generate_script"
    /\ InitLocals
    /\ InitScene
    /\ InitService
    /\ InitOther

GeneratorNext == GenerateScript

GeneratorSpec == GeneratorInit /\ [][GeneratorNext]_vars

\* The data structure scene as the template states it, entered at construct().
TemplateInit ==
    /\ family = "DataStructure"
    /\ params \in DataStructureParams
    /\ animation_id \in AnimationIds
    /\ class_declared = SceneClassName(family, animation_id)
    /\ class_rendered = RenderClassName(family, animation_id)
    /\ pc = "construct"
    /\ LET l == Locals(family, params)
       IN /\ domain = l.domain
          /\ show_cache = l.show_cache
          /\ show_timing = l.show_timing
          /\ protocol_version = l.protocol_version
          /\ structure_type = l.structure_type
          /\ data = l.data
          /\ operations = l.operations
          /\ flow_type = l.flow_type
          /\ steps_data = l.steps_data
    /\ InitScene
    /\ files = {ScriptFile(animation_id)}
    /\ response = <<>>
    /\ InitOther

TemplateNext ==
    \/ DataStructureConstruct
    \/ StackBase
    \/ StackCreateElement
    \/ StackShowTop
    \/ StackOperation
    \/ StackFinish
    \/ TreeRoot
    \/ TreeAddChild
    \/ TreeShowProperties
    \/ ArrayCreate
    \/ ArrayOperation
    \/ ArrayFinish
    \/ LinkedListCreate
    \/ GenericCreate

TemplateSpec == TemplateInit /\ [][TemplateNext]_vars

\* get_complexity_data called on a generator, as the tests call it, any
\* number of times, the caller free to change what it was returned.
ComplexityInit ==
    /\ family = "DataStructure"
    /\ params = <<>>
    /\ animation_id = <<>>
    /\ class_declared = <<>>
    /\ class_rendered = <<>>
    /\ pc = "generator"
    /\ InitLocals
    /\ InitScene
    /\ InitService
    /\ InitOther

ComplexityNext ==
    \/ GetComplexityData
    \/ ModifyReturned

ComplexitySpec == ComplexityInit /\ [][ComplexityNext]_vars

\* Two generation requests with the ids drawn for them, and the status
\* endpoint, served at once.
ConcurrentInit ==
    /\ family = "HTTPFlow"
    /\ params = <<>>
    /\ animation_id = <<>>
    /\ class_declared = <<>>
    /\ class_rendered = <<>>
    /\ pc = "serving"
    /\ InitLocals
    /\ InitScene
    /\ InitService
    /\ calls \in [CallIds -> [family : ConcurrentFamilies, animation_id : Uuids,
                              pc : {"generate"}, exit : {""}, rendered : {{}},
                              result : {<<>>}]]
    /\ \A c \in CallIds : \A d \in CallIds :
          c # d => calls[c].animation_id # calls[d].animation_id
    /\ status_report = <<>>
    /\ complexities = <<>>
    /\ complexity_data = <<>>
    /\ bars = <<>>
    /\ values = <<>>
    /\ j = 0

ConcurrentNext ==
    \/ \E c \in CallIds : CallGenerate(c)
    \/ \E c \in CallIds : CallWriteScript(c)
    \/ \E c \in CallIds : CallManimExit(c)
    \/ \E c \in CallIds : CallRaise(c)
    \/ \E c \in CallIds : CallFindVideo(c)
    \/ \E c \in CallIds : CallFinally(c)
    \/ GetStatus

ConcurrentSpec == ConcurrentInit /\ [][ConcurrentNext]_vars

\* The items of the lists that are sorted.
SortValues == {-1, 0, 1, 2}

SortParams ==
    {("type" :> "bubble_sort") @@ a : a \in Opt("data", SeqsUpTo(SortValues, MaxSortLen))}

\* The algorithm scene of a bubble sort request, entered at
\* animate_bubble_sort with the list the script holds.
SortInit ==
    /\ family = "Algorithm"
    /\ params \in SortParams
    /\ animation_id \in AnimationIds
    /\ class_declared = <<"Algorithm", "_">> \o SceneIdentifier(animation_id)
    /\ class_rendered = <<>>
    /\ pc = "animate_bubble_sort"
    /\ domain = Unset.domain
    /\ show_cache = Unset.show_cache
    /\ show_timing = Unset.show_timing
    /\ protocol_version = Unset.protocol_version
    /\ structure_type = Unset.structure_type
    /\ data = Get(params, "data", DefaultSortData)
    /\ operations = Unset.operations
    /\ flow_type = Unset.flow_type
    /\ steps_data = Unset.steps_data
    /\ InitScene
    /\ InitService
    /\ InitOther

SortNext ==
    \/ SortCreateBar
    \/ SortShowBars
    \/ SortCompare
    \/ SortMarkSorted
    \/ SortFinish

SortSpec == SortInit /\ [][SortNext]_vars

\* The scene goes on while a statement is left to run.
FairSortSpec == SortSpec /\ WF_vars(SortNext)

\* The scene of a branching process flow request, entered at construct()
\* with the script generated and manim started on it.
BranchingInit ==
    /\ family = "ProcessFlow"
    /\ params \in BranchingParams
    /\ animation_id \in Uuids
    /\ class_declared = SceneClassName(family, animation_id)
    /\ class_rendered = RenderClassName(family, animation_id)
    /\ pc = "construct"
    /\ LET l == Locals(family, params)
       IN /\ domain = l.domain
          /\ show_cache = l.show_cache
          /\ show_timing = l.show_timing
          /\ protocol_version = l.protocol_version
          /\ structure_type = l.structure_type
          /\ data = l.data
          /\ operations = l.operations
          /\ flow_type = l.flow_type
          /\ steps_data = l.steps_data
    /\ InitScene
    /\ files = {ScriptFile(animation_id)}
    /\ response = <<>>
    /\ InitOther

BranchingNext ==
    \/ ProcessFlowConstruct
    \/ BranchingPlaceStage
    \/ BranchingAnimate
    \/ ShowProcessSummary
    \/ FinishExecute

BranchingSpec == BranchingInit /\ [][BranchingNext]_vars

-----------------------------------------------------------------------------
(* Properties.                                                             *)

IsDns == family = "DNSResolution"
IsHttp == family = "HTTPFlow"
IsStack == family = "DataStructure" /\ structure_type = "stack"
IsTree == family = "DataStructure" /\ structure_type = "binary_tree"
IsCircular == family = "ProcessFlow" /\ flow_type = "circular"

\* One degree, in the unit of the angles (PI is 180 degrees).
Degree == PI \div 180

IsCacheStep(t) == t.from = "client" /\ t.to = "cache"

\* C1: when show_cache is false, the DNS scene plays exactly 6 steps and
\* none of them goes from the client to the cache.
C1_NoCacheSixSteps ==
    (IsDns /\ pc = "done" /\ ~show_cache) =>
        /\ Len(step_texts) = 6
        /\ \A k \in 1..Len(step_texts) : ~IsCacheStep(step_texts[k])

\* The six protocol steps, as (from, to), in protocol order.
ProtocolChain ==
    << <<"client", "root">>, <<"root", "client">>, <<"client", "tld">>,
       <<"tld", "client">>, <<"client", "auth">>, <<"auth", "client">> >>

\* C2: when show_cache is true, the DNS scene plays exactly 7 steps, the
\* first from the client to the cache, and protocol step k (k = 1..6) is
\* played at position k, counted from 0: each one position later than in
\* the protocol list, in the protocol's order.
C2_CacheStepFirst ==
    (IsDns /\ pc = "done" /\ show_cache) =>
        /\ Len(step_texts) = 7
        /\ IsCacheStep(step_texts[1])
        /\ \A k \in 1..6 :
              /\ <<step_texts[k + 1].from, step_texts[k + 1].to>> = ProtocolChain[k]
              /\ step_texts[k + 1].number = k

C2_Witness ==
    IsDns /\ pc = "done" /\ show_cache /\ Len(step_texts) = 7

\* The element on the scene that was created last.
LastCreated(S) == CHOOSE e \in S : \A f \in S : f.id <= e.id

StackLifo ==
    IsStack =>
        /\ operations # <<>> => pc # "error"
        /\ SeqToSet(current_elements) = scene_elements
        /\ Cardinality(scene_elements) = Len(current_elements)
        /\ current_elements # <<>> =>
              current_elements[Len(current_elements)] = LastCreated(scene_elements)

PopOnEmptyIsNoOp ==
    (/\ IsStack
     /\ pc = "perform_stack_operations"
     /\ i < Len(operations)
     /\ Get(operations[i + 1], "type", "push") = "pop"
     /\ current_elements = <<>>)
    => (/\ pc' = "perform_stack_operations"
        /\ i' = i + 1
        /\ current_elements' = <<>>
        /\ scene_elements' = {}
        /\ mobjects' = mobjects)

\* C3: a stack request with operations raises no error, and throughout any
\* run of pushes and pops on any initial stack the top of the stack (the last item of
\* current_elements) is the element created last among those not popped,
\* the stack holds exactly the elements still on the scene, and a pop on
\* the empty stack changes nothing.
\* Spec violates it (generate_script raises); TemplateSpec satisfies it.
C3_StackTrace == []StackLifo /\ [][PopOnEmptyIsNoOp]_vars

\* One initial element, then pop, pop (on the empty stack), push 20.
C3_TemplateWitness ==
    /\ IsStack /\ pc = "done"
    /\ Len(data) = 1
    /\ operations = <<[type |-> "pop"], [type |-> "pop"], [type |-> "push", value |-> 20]>>
    /\ Len(current_elements) = 1
    /\ current_elements[1].value = 20

\* C4: a stack request with elements and operations is laid out without
\* error, and in the layout the
\* k-th surviving element from the bottom (k from 0) sits at slot k, that
\* is 0.7*k above the bottom offset -2.5 (offsets in tenths); so offsets
\* strictly increase with insertion order, no two elements on the scene
\* share an offset, and a pushed element is one slot above the last
\* surviving one.
\* Spec violates it (generate_script raises); TemplateSpec satisfies it.
C4_StackSlots ==
    IsStack =>
        /\ (data # <<>> /\ operations # <<>>) => pc # "error"
        /\ \A k \in 1..Len(current_elements) :
              current_elements[k].offset = 7 * (k - 1) - 25
        /\ \A k \in 1..(Len(current_elements) - 1) :
              /\ current_elements[k].offset < current_elements[k + 1].offset
              /\ current_elements[k].id < current_elements[k + 1].id
        /\ \A e \in scene_elements : \A f \in scene_elements :
              e # f => e.offset # f.offset

\* Two initial elements, then pop, push, push: the pushes refill slot 1
\* and take slot 2.
C4_TemplateWitness ==
    /\ IsStack /\ pc = "done"
    /\ Len(data) = 2
    /\ Len(operations) = 3
    /\ operations[1] = [type |-> "pop"]
    /\ Len(current_elements) = 3

\* C5: a binary tree request with child nodes is laid out without error,
\* and in the layout
\* the edge drawn to node i > 0 starts at the node whose left or right
\* child i is (index floor((i-1)/2)), a node placed before i, and node i
\* is placed on level L with 2^L <= i+1 < 2^(L+1) (L = floor(log2(i+1));
\* a level is 1.5 units, 6 quarters, of depth).
\* Spec violates it (generate_script raises); TemplateSpec satisfies it.
C5_TreeParents ==
    IsTree =>
        /\ Len(data) > 1 => pc # "error"
        /\ \A k \in 1..Len(edges) :
              /\ edges[k].to = k
              /\ edges[k].to \in {2 * edges[k].from + 1, 2 * edges[k].from + 2}
              /\ edges[k].from \in DOMAIN nodes
              /\ edges[k].from < edges[k].to
        /\ \A n \in DOMAIN nodes :
              /\ \A m \in 0..n : m \in DOMAIN nodes
              /\ n > 0 =>
                    /\ n <= Len(edges) + 1
                    /\ \E L \in 0..n :
                          /\ 2^L <= n + 1
                          /\ n + 1 < 2^(L + 1)
                          /\ nodes[n].y = -6 * L

C5_TemplateWitness ==
    IsTree /\ pc = "done" /\ Len(edges) = 6 /\ DOMAIN nodes = 0..6

OverLong == IsTree /\ Len(data) > 7

Truncated == OverLong /\ pc = "done"

FirstSevenLaidOut ==
    /\ DOMAIN nodes = 0..6
    /\ \A k \in 0..6 : nodes[k].value = data[k + 1]
    /\ Len(edges) = 6

\* C6: a binary tree request with more than 7 values does not fail: it is
\* laid out with the first 7 values and the result reports the truncation.
\* Spec violates it (generate_script raises), and so does TemplateSpec (the
\* scene reports nothing).
C6_TruncationReported ==
    /\ OverLong => pc # "error"
    /\ Truncated => (FirstSevenLaidOut /\ "truncation_notice" \in mobjects)

\* What TemplateSpec satisfies in place of C6_TruncationReported: the
\* layout of an over-long list holds the first 7 values and the truncation
\* is silent, the scene holding the title, the complexity box and the
\* properties text, as for 7 values.
SilentTruncation ==
    Truncated =>
        (FirstSevenLaidOut /\ mobjects = {"title", "complexity_group", "properties"})

SilentTruncationWitness ==
    Truncated /\ Len(data) = 8 /\ FirstSevenLaidOut

C8_CircularArrows ==
    (IsCircular /\ pc \in {"show_process_summary", "done"} /\ steps_data # <<>>) =>
        LET N == Len(steps_data)
        IN /\ Len(arrows) = N
           /\ \A k \in 1..Len(arrows) :
                 /\ arrows[k].from = k - 1
                 /\ arrows[k].to = (IF k = N THEN 0 ELSE k)
           /\ {k \in 1..Len(arrows) : arrows[k].to = 0} = {N}
           /\ \A st \in 0..(N - 1) :
                 /\ Cardinality({k \in 1..Len(arrows) : arrows[k].from = st}) = 1
                 /\ Cardinality({k \in 1..Len(arrows) : arrows[k].to = st}) = 1

C8_Witness ==
    IsCircular /\ pc = "done" /\ Len(arrows) = 5 /\ arrows[5].to = 0

EmptyCircular == IsCircular /\ steps_data = <<>>

C10_ContiguousNumbers ==
    (IsHttp \/ IsDns) =>
        /\ step_texts # <<>> => step_texts[1].number \in {0, 1}
        /\ \A k \in 1..(Len(step_texts) - 1) :
              step_texts[k + 1].number = step_texts[k].number + 1

C10_Witness ==
    /\ pc = "done"
    /\ \/ IsHttp /\ Len(step_texts) = 3 /\ step_texts[3].number = 3
       \/ IsDns /\ step_texts[1].number = 0 /\ step_texts[Len(step_texts)].number = 6

\* C11: in a DNS scene with timing shown, the step at position k (from 0)
\* shows the timing table[k mod 7] of the table 1, 50, 30, 25, 20, 15, 10,
\* and the timing of the cache step is strictly smaller than that of every
\* other step of the scene.
C11_TimingTable ==
    (IsDns /\ show_timing) =>
        LET table == <<1, 50, 30, 25, 20, 15, 10>>
        IN \A k \in 1..Len(step_texts) :
              /\ step_texts[k].timing_ms = <<table[((k - 1) % 7) + 1]>>
              /\ IsCacheStep(step_texts[k]) =>
                    \A m \in 1..Len(step_texts) :
                        m # k => step_texts[k].timing_ms[1] < step_texts[m].timing_ms[1]

C11_Witness ==
    /\ IsDns /\ pc = "done" /\ show_timing
    /\ Len(step_texts) = 7
    /\ IsCacheStep(step_texts[1])
    /\ step_texts[1].timing_ms = <<1>>
    /\ step_texts[7].timing_ms = <<10>>

\* The steps of the scene that are not the cache step, as (from, to).
ProtocolPart ==
    LET protocol == SelectSeq(step_texts, LAMBDA t : ~IsCacheStep(t))
    IN [k \in 1..Len(protocol) |-> <<protocol[k].from, protocol[k].to>>]

\* C12: a finished DNS scene has played the six protocol steps in the
\* order client-root, root-client, client-TLD, TLD-client,
\* client-authoritative, authoritative-client; its last step is
\* authoritative-client; and with caching enabled the message of its first
\* step names the requested domain.
C12_ProtocolOrder ==
    (IsDns /\ pc = "done") =>
        /\ ProtocolPart = ProtocolChain
        /\ step_texts # <<>>
        /\ step_texts[Len(step_texts)].from = "auth"
        /\ step_texts[Len(step_texts)].to = "client"
        /\ show_cache =>
              step_texts[1].message =
                  "Check cache for " \o Join(Get(params, "domain", <<"example", "com">>))

C12_Witness ==
    /\ IsDns /\ pc = "done" /\ show_cache
    /\ params = [domain |-> <<"example", "com">>, show_cache |-> TRUE]
    /\ Len(step_texts) = 7
    /\ step_texts[1].message = "Check cache for example.com"
    /\ step_texts[2].message = "Query: example.com?"
    /\ step_texts[3].message = "Try .com TLD server"
    /\ step_texts[7].from = "auth"

\* C13: the HTTP scene plays one step per input item, in input order (step
\* k is numbered k and, when item k has a description, shows it); an item
\* tagged 'request' is drawn from the client to the server and an item
\* tagged 'response' from the server to the client.
C13_HttpDirections ==
    IsHttp =>
        /\ Len(step_texts) <= Len(steps_data)
        /\ pc = "done" => Len(step_texts) = Len(steps_data)
        /\ \A k \in 1..Len(step_texts) :
              /\ step_texts[k].number = k
              /\ "description" \in DOMAIN steps_data[k] =>
                    step_texts[k].message = steps_data[k].description
              /\ Get(steps_data[k], "direction", "") = "request" =>
                    (step_texts[k].from = "client" /\ step_texts[k].to = "server")
              /\ Get(steps_data[k], "direction", "") = "response" =>
                    (step_texts[k].from = "server" /\ step_texts[k].to = "client")

C13_Witness ==
    /\ IsHttp /\ pc = "done"
    /\ steps_data = << [description |-> "Send request", direction |-> "request"],
                       [description |-> "Send response", direction |-> "response"],
                       [description |-> "Send request", direction |-> "request"] >>
    /\ Len(step_texts) = 3
    /\ step_texts[2].from = "server"
    /\ step_texts[3].from = "client"

IsDataStructure == family = "DataStructure"
IsArray == IsDataStructure /\ structure_type = "array"

\* The request holds one operation, an update with a value at an index
\* inside the data.
SingleUpdate ==
    /\ IsArray
    /\ Len(operations) = 1
    /\ Get(operations[1], "type", "access") = "update"
    /\ "value" \in DOMAIN operations[1]
    /\ Get(operations[1], "index", 0) < Len(data)

\* C14: an array request with n values and a single update operation with
\* a value and an index k < n raises no error, and its finished scene has
\* exactly n array elements, the complexity box, and exactly one operation
\* step, the update of element k.
\* Spec violates it (generate_script raises), and so does TemplateSpec
\* (the emitted class has no update_array_element).
C14_ArrayUpdate ==
    SingleUpdate =>
        /\ pc # "error"
        /\ pc = "done" =>
              /\ Len(boxes) = Len(data)
              /\ "complexity_group" \in mobjects
              /\ op_steps = << [routine |-> "update_array_element",
                                index |-> Get(operations[1], "index", 0)] >>

\* The operation types each structure supports.
SupportedOps(kind) ==
    IF kind = "array" THEN {"access", "update", "search"} ELSE {"push", "pop"}

OpType(kind, op) == Get(op, "type", IF kind = "array" THEN "access" ELSE "push")

HasUnsupportedOp ==
    /\ (IsArray \/ IsStack)
    /\ \E k \in 1..Len(operations) :
          OpType(structure_type, operations[k]) \notin SupportedOps(structure_type)

\* The values on a stack after the pushes and pops of ops, in order.
RECURSIVE StackAfter(_, _)
StackAfter(vals, ops) ==
    IF ops = <<>> THEN vals
    ELSE LET op == Head(ops)
         IN IF Get(op, "type", "push") = "push"
            THEN StackAfter(Append(vals, Get(op, "value", 0)), Tail(ops))
            ELSE IF Get(op, "type", "push") = "pop" /\ vals # <<>>
            THEN StackAfter(SubSeq(vals, 1, Len(vals) - 1), Tail(ops))
            ELSE StackAfter(vals, Tail(ops))

\* The operations of the request that the structure supports, in order.
SupportedPart ==
    SelectSeq(operations,
              LAMBDA op : OpType(structure_type, op) \in SupportedOps(structure_type))

\* C15: a request holding an operation of an unsupported type raises no
\* error; its finished scene is the one the supported operations alone
\* give, applied in their input order: the array keeps its elements and
\* shows one step per supported operation, the stack holds what the pushes
\* and pops leave.
\* Spec violates it (generate_script raises); under TemplateSpec the stack
\* satisfies it and the array does when the supported operations are
\* accesses.
C15_UnsupportedSkipped ==
    HasUnsupportedOp =>
        /\ pc # "error"
        /\ (pc = "done" /\ IsArray) =>
              /\ boxes = data
              /\ Len(op_steps) = Len(SupportedPart)
        /\ (pc = "done" /\ IsStack) =>
              [k \in 1..Len(current_elements) |-> current_elements[k].value] =
                  StackAfter(data, SupportedPart)

\* The stack part of C15, which TemplateSpec satisfies.
C15_StackSkipsUnsupported ==
    (HasUnsupportedOp /\ IsStack) =>
        /\ pc # "error"
        /\ pc = "done" =>
              [k \in 1..Len(current_elements) |-> current_elements[k].value] =
                  StackAfter(data, SupportedPart)

C15_TemplateWitness ==
    /\ IsStack /\ pc = "done"
    /\ data = <<10>>
    /\ operations = <<[type |-> "peek"], [type |-> "pop"], [type |-> "push", value |-> 20]>>
    /\ Len(current_elements) = 1
    /\ current_elements[1].value = 20

\* C16: a data structure request raises no error and is laid out by the
\* routine of its kind when the kind is one of array, linked_list, stack,
\* queue, binary_tree, hash_table and graph; a request of any other kind
\* is laid out by the generic routine, whose finished scene shows the one
\* data label and none of the operations.
\* Spec violates it (generate_script raises), and so does TemplateSpec
\* (the emitted class has no layout for queue, hash_table and graph and no
\* perform_linked_list_operations).
C16_LayoutByKind ==
    (IsDataStructure /\ structure_type # "") =>
        /\ pc # "error"
        /\ \A kind \in StructureKinds :
              pc = "create_" \o kind \o "_visualization" => structure_type = kind
        /\ pc = "create_generic_visualization" => structure_type \notin StructureKinds
        /\ (pc = "done" /\ structure_type \notin StructureKinds) =>
              /\ "data_text" \in mobjects
              /\ op_steps = <<>>
              /\ boxes = <<>>
              /\ current_elements = <<>>
              /\ nodes = <<>>
        /\ (pc = "done" /\ structure_type \in StructureKinds) =>
              "data_text" \notin mobjects

\* The generic part of C16, which TemplateSpec satisfies.
C16_GenericFallback ==
    (IsDataStructure /\ structure_type \notin StructureKinds) =>
        /\ pc # "error"
        /\ pc \in {"construct", "create_generic_visualization", "done"}
        /\ pc = "done" =>
              /\ "data_text" \in mobjects
              /\ op_steps = <<>>
              /\ boxes = <<>>
              /\ current_elements = <<>>
              /\ nodes = <<>>

C16_TemplateWitness ==
    /\ IsDataStructure /\ structure_type = "trie" /\ pc = "done"
    /\ operations # <<>>
    /\ "data_text" \in mobjects

IsBranching == family = "ProcessFlow" /\ flow_type = "branching"

\* The stages of the request that are on the main branch, in input order.
MainStages ==
    LET idx == {k \in 1..Len(steps_data) : Get(steps_data[k], "branch", "main") = "main"}
        RECURSIVE pick(_)
        pick(k) == IF k > Len(steps_data) THEN <<>>
                   ELSE IF k \in idx THEN <<steps_data[k]>> \o pick(k + 1)
                   ELSE pick(k + 1)
    IN pick(1)

BranchElements == {k \in 1..Len(step_objects) : step_objects[k].role \in {"yes", "no"}}

\* C17: in a branching flow no error is raised; every branch element
\* belongs to a stage that is on the main branch and of type decision, and
\* to an entry of the request with its condition ('yes' or 'no'); a stage
\* owns at most one 'yes' and at most one 'no' element, and the arrows and
\* labels of branches start at decision stages only.  So a decision stage
\* without 'yes' or 'no' entries and a stage of another type have none.
C17_BranchesOnlyAtDecisions ==
    IsBranching =>
        /\ pc # "error"
        /\ \A k \in BranchElements :
              LET element == step_objects[k]
              IN /\ element.owner + 1 \in 1..Len(MainStages)
                 /\ Get(MainStages[element.owner + 1], "type", "process") = "decision"
                 /\ \E n \in 1..Len(steps_data) :
                       Get(steps_data[n], "condition", "") = element.role
        /\ \A k \in BranchElements : \A m \in BranchElements :
              (/\ step_objects[k].owner = step_objects[m].owner
               /\ step_objects[k].role = step_objects[m].role) => k = m
        /\ \A k \in 1..Len(arrows) :
              arrows[k].kind # "main_arrow" =>
                  Get(MainStages[arrows[k].from + 1], "type", "process") = "decision"

\* A start stage, a decision with a 'yes' entry and no 'no' entry: the
\* start stage has no branch, the decision has the one.
C17_Witness ==
    /\ IsBranching /\ pc = "done"
    /\ steps_data = << [name |-> "Start", type |-> "start", branch |-> "main"],
                       [name |-> "Check", type |-> "decision"],
                       [name |-> "Grant", branch |-> "yes", condition |-> "yes"] >>
    /\ Len(step_objects) = 3
    /\ step_objects[3].role = "yes"
    /\ step_objects[3].owner = 1

\* A decision with no 'yes' or 'no' entry: no branch element, no error.
C17_NoEntriesWitness ==
    /\ IsBranching /\ pc = "done"
    /\ steps_data = << [name |-> "Check", type |-> "decision"] >>
    /\ Len(step_objects) = 1
    /\ arrows = <<>>

\* The fields each generator reads with a default.
DefaultedFields(fam) ==
    CASE fam = "DNSResolution" -> {"domain", "show_cache", "show_timing"}
      [] fam = "HTTPFlow"      -> {"steps", "protocol_version"}
      [] fam = "DataStructure" -> {"type", "data", "operations"}
      [] fam = "ProcessFlow"   -> {"steps", "flow_type"}

SomeFieldAbsent == DefaultedFields(family) \ DOMAIN params # {}

\* C18: a request with an absent field, the empty parameter map included,
\* never ends in a failure, and once generate_script has run every absent
\* field has its default: protocol version 'HTTP/1.1', kind 'array', data
\* [1,2,3,4,5], domain 'example.com', flow type 'linear'.
C18_DefaultsNeverFail ==
    SomeFieldAbsent =>
        /\ pc \notin {"bad_request", "error"}
        /\ pc \notin {"request", "generate_script"} =>
              /\ (family = "HTTPFlow" /\ "protocol_version" \notin DOMAIN params) =>
                    protocol_version = "HTTP/1.1"
              /\ (family = "DataStructure" /\ "type" \notin DOMAIN params) =>
                    structure_type = "array"
              /\ (family = "DataStructure" /\ "data" \notin DOMAIN params) =>
                    data = <<1, 2, 3, 4, 5>>
              /\ (family = "DNSResolution" /\ "domain" \notin DOMAIN params) =>
                    Join(domain) = "example.com"
              /\ (family = "ProcessFlow" /\ "flow_type" \notin DOMAIN params) =>
                    flow_type = "linear"

\* The letters and digits.
AlphaNumeric ==
    {"0", "1", "2", "3", "4", "5", "6", "7", "8", "9",
     "a", "b", "c", "d", "e", "f", "g", "h", "i", "j", "k", "l", "m",
     "n", "o", "p", "q", "r", "s", "t", "u", "v", "w", "x", "y", "z",
     "A", "B", "C", "D", "E", "F", "G", "H", "I", "J", "K", "L", "M",
     "N", "O", "P", "Q", "R", "S", "T", "U", "V", "W", "X", "Y", "Z"}

\* The id with every character that is no letter or digit turned into "_".
Sanitised(id) ==
    [k \in 1..Len(id) |-> IF id[k] \in AlphaNumeric THEN id[k] ELSE "_"]

\* C19: the class a generator declares for the id it is passed is named by
\* the family, an underscore, and the id with every non-alphanumeric
\* character replaced by an underscore.
C19_IdSanitised ==
    pc = "script" =>
        class_declared = <<ScenePrefix(family), "_">> \o Sanitised(animation_id)

\* C20: for each of the four families and every request id, the class name
\* the manim command is given is the name of the class the family's
\* template declares for that id; so the scene of a request is run only
\* under the name its script declares.
C20_ClassNamesAgree ==
    /\ \A fam \in Families :
          RenderClassName(fam, animation_id) = SceneClassName(fam, animation_id)
    /\ class_rendered # <<>> => class_rendered = class_declared
    /\ pc \notin {"request", "bad_request", "generate_script", "script", "error"} =>
          \/ class_rendered = class_declared /\ class_declared # <<>>
          \/ pc = "responded" /\ class_rendered = <<>> /\ class_declared = <<>>

C20_Witness ==
    /\ pc = "done"
    /\ animation_id = <<"a", "-">>
    /\ class_declared = <<"ProcessFlow", "_", "a", "_">>
    /\ class_rendered = <<"ProcessFlow", "_", "a", "_">>

\* C21: a call of get_complexity_data returns a record of exactly the five
\* fields access, search, insert, delete and space; for array access is
\* O(1), search O(n) and space O(n); for hash_table search, insert and
\* delete are O(1); for binary_tree access and search are O(log n); for a
\* kind that is none of the seven of the table every field is 'O(?)'; and
\* the table is after the call what its display states, whatever was
\* called or changed before.
C21_ComplexityData ==
    pc = "returned" =>
        /\ DOMAIN complexity_data = {"access", "search", "insert", "delete", "space"}
        /\ structure_type = "array" =>
              /\ complexity_data.access = "O(1)"
              /\ complexity_data.search = "O(n)"
              /\ complexity_data.space = "O(n)"
        /\ structure_type = "hash_table" =>
              /\ complexity_data.search = "O(1)"
              /\ complexity_data.insert = "O(1)"
              /\ complexity_data.delete = "O(1)"
        /\ structure_type = "binary_tree" =>
              /\ complexity_data.access = "O(log n)"
              /\ complexity_data.search = "O(log n)"
        /\ structure_type \notin StructureKinds =>
              \A field \in DOMAIN complexity_data : complexity_data[field] = "O(?)"
        /\ DOMAIN complexities = StructureKinds
        /\ \A kind \in DOMAIN complexities :
              /\ DOMAIN complexities[kind] = {"access", "search", "insert", "delete", "space"}
              /\ \A field \in DOMAIN complexities[kind] :
                    complexities[kind][field] \notin {"O(?)", "changed"}
        /\ structure_type \in StructureKinds =>
              complexity_data = complexities[structure_type]

\* A kind outside the table was asked for: the default came back and the
\* table has no entry for it.
C21_Witness ==
    /\ pc = "returned"
    /\ structure_type = "trie"
    /\ complexity_data.access = "O(?)"
    /\ "trie" \notin DOMAIN complexities

\* The flow is laid out by create_linear_flow: its type is 'linear' or none
\* of the three types.
IsLinear == family = "ProcessFlow" /\ flow_type \notin {"", "branching", "circular"}

\* C22: the animation of a linear flow of N stages plays stage 0, the arrow
\* from stage 0 to stage 1, stage 1, ... and stage N-1 last: the stages in
\* input order, their arrows between them, N-1 arrows in all and none for
\* N <= 1, and nothing else.
C22_LinearOrder ==
    (IsLinear /\ pc \in {"show_process_summary", "done"}) =>
        LET N == Len(steps_data)
        IN /\ Len(played) = (IF N = 0 THEN 0 ELSE 2 * N - 1)
           /\ Cardinality({k \in 1..Len(played) : played[k].kind = "arrow"}) =
                 (IF N <= 1 THEN 0 ELSE N - 1)
           /\ \A n \in 1..N :
                 /\ played[2 * n - 1].kind = "step"
                 /\ played[2 * n - 1].index = n - 1
                 /\ played[2 * n - 1].object.y = 20 - 18 * (n - 1)
                 /\ "name" \in DOMAIN steps_data[n] =>
                       played[2 * n - 1].object.name = steps_data[n].name
           /\ \A n \in 1..(N - 1) :
                 /\ played[2 * n].kind = "arrow"
                 /\ played[2 * n].object = [from |-> n - 1, to |-> n]

\* Three stages: stage, arrow, stage, arrow, stage.
C22_Witness ==
    /\ IsLinear /\ pc = "done"
    /\ Len(steps_data) = 3
    /\ [k \in 1..Len(played) |-> played[k].kind] = <<"step", "arrow", "step", "arrow", "step">>
    /\ played[4].object = [from |-> 1, to |-> 2]
    /\ played[5].index = 2

\* generate_script has raised: the call is over and no script exists.
GenerationFailed ==
    /\ class_declared = <<>>
    /\ \/ pc = "error"
       \/ pc = "responded" /\ response = Failure(500, "Internal server error")

\* C23: as long as generate_script has returned no script, OUTPUT_DIR holds
\* no file of the request and manim has not been started; when it raised,
\* that stays so to the answer, which is a 500; and a script file exists or
\* manim is started only for a script that declares its class.
C23_NoPartialArtifacts ==
    /\ class_declared = <<>> =>
          /\ files = {}
          /\ class_rendered = <<>>
    /\ GenerationFailed =>
          /\ files = {}
          /\ class_rendered = <<>>
          /\ response # <<>> => response.code = 500
    /\ (ScriptFile(animation_id) \in files \/ class_rendered # <<>>) =>
          class_declared = SceneClassName(family, animation_id)

\* A data structure request: generate_script raised and the request was
\* answered, nothing written and nothing run.
C23_Witness ==
    /\ family = "DataStructure"
    /\ GenerationFailed
    /\ pc = "responded"
    /\ response.code = 500
    /\ files = {}
    /\ class_rendered = <<>>

\* The files of a call: its script file and the videos manim may leave for it.
OwnNames(c) ==
    {ScriptFile(calls[c].animation_id)}
    \cup UNION Rendered(calls[c].family, calls[c].animation_id)

\* The answer a call gets when no other call is made: the one its family
\* and the outcome of its run of manim give in a directory holding nothing
\* but its own video.
AloneResult(c) ==
    LET call == calls[c]
    IN IF call.exit = "" THEN Failure(500, "Internal server error")
       ELSE IF call.exit = "timeout" THEN Failure(500, "Manim execution timed out")
       ELSE IF call.exit = "1"
       THEN Failure(500, "Error executing Manim script: Manim execution failed")
       ELSE IF call.rendered = {}
       THEN Failure(500, "Error executing Manim script: Generated video file not found")
       ELSE Success(call.animation_id, CHOOSE video \in call.rendered : TRUE)

\* No call has a file name of another call; the answer of a call is the
\* one it gets alone and names a video of its own; and when every call has
\* returned, OUTPUT_DIR holds the videos that were rendered and no script.
CallsIndependent ==
    /\ \A c \in CallIds : \A d \in CallIds :
          c # d => OwnNames(c) \cap OwnNames(d) = {}
    /\ \A c \in CallIds :
          calls[c].pc = "returned" =>
              /\ calls[c].result = AloneResult(c)
              /\ calls[c].result.code = 200 => calls[c].result.file_path \in OwnNames(c)
    /\ (\A c \in CallIds : calls[c].pc = "returned") =>
          files = UNION {calls[c].rendered : c \in CallIds}

\* A step of a call creates and deletes files of that call only, and no
\* call or file changes but by the step of one call.
OwnFilesOnly ==
    /\ \A c \in CallIds :
          calls'[c] # calls[c] =>
              /\ (files' \ files) \cup (files \ files') \subseteq OwnNames(c)
              /\ \A d \in CallIds : d # c => calls'[d] = calls[d]
    /\ files' # files => calls' # calls

\* C24: of two concurrent generation requests with distinct ids, in every
\* interleaving of their steps, neither writes or deletes a file of the
\* other, neither answers with the other's video, and each is answered as
\* it is when it runs alone.
C24_ConcurrentIndependent == []CallsIndependent /\ [][OwnFilesOnly]_vars

\* Both calls have written their script and rendered their video, and
\* neither has deleted its script yet: four files of two calls under way.
C24_Witness ==
    /\ \A c \in CallIds :
          /\ calls[c].pc = "finally"
          /\ calls[c].result.code = 200
          /\ ScriptFile(calls[c].animation_id) \in files
    /\ calls["first"].result.file_path # calls["second"].result.file_path
    /\ Cardinality(files) = 4


\* The sum of the counts of a tally.
RECURSIVE TallyTotal(_)
TallyTotal(tally) ==
    IF DOMAIN tally = {} THEN 0
    ELSE LET t == CHOOSE x \in DOMAIN tally : TRUE
         IN tally[t] + TallyTotal([x \in DOMAIN tally \ {t} |-> tally[x]])

\* The number of stages of a list whose type, 'process' when it has none,
\* is t, counted stage by stage.
RECURSIVE StagesOfType(_, _)
StagesOfType(items, t) ==
    IF items = <<>> THEN 0
    ELSE (IF "type" \in DOMAIN Head(items)
          THEN (IF Head(items).type = t THEN 1 ELSE 0)
          ELSE (IF t = "process" THEN 1 ELSE 0))
         + StagesOfType(Tail(items), t)

\* C25: when the process flow scene has ended, whatever its flow type, a
\* request with zero stages has no summary, and otherwise the summary's
\* total is the number of input stages, its per-type counts sum to that
\* number, and the count of every type is the number of input stages of
\* that type, a stage without a type counting as 'process'; no type is
\* listed with a count of zero.
C25_SummaryCounts ==
    (family = "ProcessFlow" /\ pc = "done") =>
        IF steps_data = <<>>
        THEN summary = <<>> /\ "summary_box" \notin mobjects
        ELSE /\ summary.total_steps = Len(steps_data)
             /\ TallyTotal(summary.step_counts) = Len(steps_data)
             /\ \A t \in DOMAIN summary.step_counts :
                    /\ summary.step_counts[t] = StagesOfType(steps_data, t)
                    /\ summary.step_counts[t] > 0
             /\ \A t \in {"process", "start", "decision"} :
                    StagesOfType(steps_data, t) > 0 => t \in DOMAIN summary.step_counts

\* A branching flow of three items has ended: a decision on the main
\* branch, and two items off the main branch without a type, which the
\* summary counts as two of type 'process'.
C25_Witness ==
    /\ family = "ProcessFlow"
    /\ pc = "done"
    /\ flow_type = "branching"
    /\ Len(steps_data) = 3
    /\ Len(main_steps(steps_data)) = 1
    /\ summary # <<>>
    /\ summary.total_steps = 3
    /\ DOMAIN summary.step_counts = {"decision", "process"}
    /\ summary.step_counts["process"] = 2


\* boxes[index] of an 'access' raised IndexError: the one failure of the
\* data structure scene that is no call of a missing method.
IndexPastEnd ==
    /\ structure_type = "array"
    /\ i \in 1..Len(operations)
    /\ Get(operations[i], "type", "access") = "access"
    /\ Get(operations[i], "index", 0) >= Len(boxes)

SideEntries ==
    {n \in 1..Len(steps_data) :
        "branch" \in DOMAIN steps_data[n] /\ steps_data[n].branch # "main"}

\* The place of the first entry off the main branch that has the
\* condition, 0 when there is none.
FirstSideEntry(cond) ==
    LET hits == {n \in SideEntries :
                    "condition" \in DOMAIN steps_data[n] /\ steps_data[n].condition = cond}
    IN IF hits = {} THEN 0 ELSE CHOOSE n \in hits : \A m \in hits : n <= m

\* The stages of the main branch that are decisions, as places in it from 0.
MainDecisions ==
    {m \in 0..(Len(MainStages) - 1) :
        Get(MainStages[m + 1], "type", "process") = "decision"}

\* The branch elements that were played, as places in `played`.
PlayedBranchElements ==
    {k \in 1..Len(played) :
        played[k].kind = "step" /\ played[k].object.role \in {"yes", "no"}}

C27_UnmatchedWitness ==
    /\ IsBranching /\ pc = "done"
    /\ steps_data = << [name |-> "Check", type |-> "decision"],
                       [name |-> "Check", type |-> "decision"],
                       [name |-> "Retry", type |-> "decision", branch |-> "loop"],
                       [name |-> "Pass", condition |-> "yes"] >>
    /\ PlayedBranchElements = {}
    /\ Len(played) = 5


IsSort == family = "Algorithm"

\* The list the request gave.
SortInput == Get(params, "data", DefaultSortData)

\* The number of times v occurs in a list.
RECURSIVE Occurrences(_, _)
Occurrences(list, v) ==
    IF list = <<>> THEN 0
    ELSE (IF Head(list) = v THEN 1 ELSE 0) + Occurrences(Tail(list), v)

Ascending(list) == \A k \in 1..(Len(list) - 1) : list[k] <= list[k + 1]

IsPermutation(a, b) ==
    /\ Len(a) = Len(b)
    /\ \A k \in 1..Len(a) : Occurrences(a, a[k]) = Occurrences(b, a[k])

\* The bar and the label at every place of the lists show the item of
\* data at that place.
BarsShowData ==
    /\ \A k \in 1..Len(bars) : bars[k].value = data[k]
    /\ \A k \in 1..Len(values) : values[k].text = data[k]
    /\ pc \in {"bubble_sort", "done"} => Len(bars) = Len(data) /\ Len(values) = Len(data)

\* C28: animate_bubble_sort raises no error on any list; throughout its
\* run the bar and the label at place k of their lists show data[k]; and
\* when it has ended data is in ascending order and a permutation of the
\* list it was given.
C28_BubbleSort ==
    IsSort =>
        /\ pc # "error"
        /\ BarsShowData
        /\ pc = "done" => Ascending(data) /\ IsPermutation(data, SortInput)

\* The same for the lists that are empty or whose greatest item is not 0;
\* there the bar and the label at place k also stand at place k of the
\* screen.
C28_SortsWhenMaxNotZero ==
    (IsSort /\ (SortInput = <<>> \/ max(SortInput) # 0)) =>
        /\ pc # "error"
        /\ BarsShowData
        /\ \A k \in 1..Len(bars) : bars[k].slot = k - 1 /\ values[k].slot = k - 1
        /\ pc = "done" => Ascending(data) /\ IsPermutation(data, SortInput)

\* A list in descending order has been sorted.
C28_SortedWitness ==
    /\ IsSort /\ pc = "done"
    /\ SortInput = <<2, 1, -1>>
    /\ data = <<-1, 1, 2>>

\* The run ends on every list, with the sort done or with the error.
C28_Terminates == <>(pc \in {"done", "error"})

\* The list [0, -1] has stopped the scene before any bar was made.
C28_DivisionByZeroWitness ==
    /\ IsSort /\ pc = "error"
    /\ SortInput = <<0, -1>>
    /\ bars = <<>>
    /\ data = <<0, -1>>


\* The call of _execute_manim_script has ended and the endpoint answered.
ExecuteEnded == pc = "responded" /\ class_rendered # <<>>

\* C29: when a call of _execute_manim_script that wrote the script file of
\* the request has ended, with the result, with the failure of manim,
\* with the timeout or with no video found, OUTPUT_DIR holds no script
\* file of the request; while the call is under way the file is there.
C29_ScriptFileRemoved ==
    /\ ExecuteEnded => ScriptFile(animation_id) \notin files
    /\ (class_rendered # <<>> /\ pc # "responded") => ScriptFile(animation_id) \in files

\* The call ended because manim ran out of time: the script file is gone.
C29_Witness ==
    /\ ExecuteEnded
    /\ response = Failure(500, "Manim execution timed out")
    /\ ScriptFile(animation_id) \notin files

\* The call ended with a video found, and the video is what is left.
C29_SuccessWitness ==
    /\ ExecuteEnded
    /\ response.code = 200
    /\ files = {OutputFile(animation_id)}

\* The call ended because manim exited with 0 and left no video.
C29_NotFoundWitness ==
    /\ ExecuteEnded
    /\ response = Failure(500, "Error executing Manim script: Generated video file not found")
    /\ files = {}

\* The call ended because manim exited with another return code.
C29_FailedWitness ==
    /\ ExecuteEnded
    /\ response = Failure(500, "Error executing Manim script: Manim execution failed")
    /\ files = {}


\* A video file of OUTPUT_DIR whose name holds the id: the name ends in
\* ".mp4" and the characters of the id stand in it one after the other.
HoldsId(name, id) ==
    /\ name # <<>>
    /\ name[Len(name)] = ".mp4"
    /\ \E k \in 0..(Len(name) - 1 - Len(id)) :
          \A n \in 1..Len(id) : name[k + n] = id[n]

\* C30: every answer of the status endpoint is a report, never a failure:
\* it says 'completed' when OUTPUT_DIR holds a video whose name holds the
\* id asked for and 'processing' when it holds none, whether the id is of
\* a request that failed, timed out, is under way or was never made.
C30_StatusByVideo ==
    [][status_report' # status_report =>
          /\ status_report'.code = 200
          /\ status_report'.status \in {"completed", "processing"}
          /\ status_report'.status = "completed"
                <=> \E name \in files : HoldsId(name, status_report'.id)]_vars

\* The same for the ids that are uuids, as are those of all requests.
C30_StatusOfUuids ==
    [][(status_report' # status_report /\ status_report'.code = 200
            /\ status_report'.id \in Uuids) =>
          /\ status_report'.status \in {"completed", "processing"}
          /\ status_report'.status = "completed"
                <=> \E name \in files : HoldsId(name, status_report'.id)]_vars

\* The endpoint has answered with a failure while OUTPUT_DIR holds a video.
C30_FailureWitness ==
    /\ status_report = Failure(500, "Error checking status")
    /\ files # {}

\* A request has been answered with its video, named after its class, and
\* the status of its id is 'processing'.
C30_CompletedYetProcessing ==
    \E c \in DOMAIN calls :
        /\ calls[c].pc = "returned"
        /\ calls[c].result.code = 200
        /\ calls[c].result.file_path \in files
        /\ status_report = [code |-> 200, id |-> calls[c].animation_id, status |-> "processing"]
        /\ files = {calls[c].result.file_path}

====
